---- MODULE Spec2Model ----
(***************************************************************************)
(* Verification model of the cloudmqtt broker dispatch core:               *)
(*   - src/src/server/subscriptions.rs : topic filter parsing, the         *)
(*     subscription trie, the match walk and message routing;              *)
(*   - src/src/server/mod.rs : the session table, accept_client /          *)
(*     connect_client and the per-connection read and send loops.          *)
(*                                                                         *)
(* Specifications: Spec / FairSpec (the broker with every kind of packet), *)
(* DeliverySpec (subscribe and publish with a larger packet budget, codecVars, connectorVars, acceptVars),       *)
(* KeepAliveSpec (the read loops against a clock), RcuSpec (subscribe and  *)
(* route_message step by step under concurrent callers) and MatchSpec      *)
(* (one filter against one topic).                                         *)
(*                                                                         *)
(* Strings (topic names, topic filters) are sequences of one-character     *)
(* strings, so that splitting at '/' is computed as the code computes it.  *)
(***************************************************************************)
EXTENDS Integers, Sequences, FiniteSets, TLC

\* ------------------------------------------------------------------ bounds
MaxConn == 2        \* transport connections the listener hands out
MaxPackets == 2     \* packets the clients send after their CONNECTs, all connections together
MaxFilters == 2     \* topic filters in one SUBSCRIBE packet
MaxLevels == 3      \* levels of the filters / topics drawn for the match walk
MaxDelivery == 3    \* packets after the CONNECTs in the delivery specification
MaxPings == 1       \* packets after the CONNECTs in the keep-alive specification
MaxIsolation == 4   \* packets after the CONNECTs in the isolation specification
MaxIntegrity == 2   \* packets after the CONNECTs in the integrity specification
MaxAck == 3         \* packets after the CONNECTs in the acknowledgement specification
MaxWrites == 2      \* packets each task of a connection writes in the writer specification
PacketChunks == 2   \* writes to the transport that one packet takes
MaxIdle == 6        \* half seconds the idle clock counts before it saturates
QueueCapacity == 2  \* capacity of the bounded outbound queue the specification prescribes

\* ----------------------------------------------------- strings and levels
RECURSIVE IndexOfSlash(_, _)
IndexOfSlash(s, i) ==
    IF i > Len(s) THEN 0
    ELSE IF s[i] = "/" THEN i
    ELSE IndexOfSlash(s, i + 1)

\* str::split('/'): the pieces between the separators; "" gives one empty piece
RECURSIVE split(_)
split(s) ==
    LET i == IndexOfSlash(s, 1) IN
    IF i = 0 THEN << s >>
    ELSE << SubSeq(s, 1, i - 1) >> \o split(SubSeq(s, i + 1, Len(s)))

\* the inverse direction, used only to build input strings from levels
RECURSIVE join(_)
join(levels) ==
    IF Len(levels) = 0 THEN << >>
    ELSE IF Len(levels) = 1 THEN levels[1]
    ELSE levels[1] \o << "/" >> \o join(Tail(levels))

\* enum TopicFilter
MultiWildcard == [kind |-> "MultiWildcard", name |-> << >>]
SingleWildcard == [kind |-> "SingleWildcard", name |-> << >>]
Named(s) == [kind |-> "Named", name |-> s]

\* TopicName::parse_from
TopicName_parse_from(topic) == split(topic)

\* TopicFilter::parse_from
TopicFilter_parse_from(topic) ==
    LET pieces == split(topic) IN
    [i \in 1..Len(pieces) |->
        IF pieces[i] = << "#" >> THEN MultiWildcard
        ELSE IF pieces[i] = << "+" >> THEN SingleWildcard
        ELSE Named(pieces[i])]

\* ------------------------------------------------------------------ trie
\* A SubscriptionTopic tree is a function from the path of a node (the keys
\* of the nested `children` maps from the root) to the node's
\* `subscriptions` vector.  A node exists iff its path is in the domain.
Root == << >>

\* SubscriptionTopic::default()
SubscriptionTopic_default == (Root :> << >>)

HasChild(t, node, filter) == Append(node, filter) \in DOMAIN t

\* variant: the child is set to an empty node whether or not it exists
or_insert_default(t, child) ==
    [n \in DOMAIN t \cup {child} |-> IF n = child THEN << >> ELSE t[n]]

\* HashMap::entry(filter).or_default()
or_default(t, child) == IF child \in DOMAIN t THEN t ELSE t @@ (child :> << >>)

\* SubscriptionTopic::add_subscription, started at `node`
RECURSIVE add_subscription(_, _, _, _)
add_subscription(t, node, topic, client) ==
    IF topic = << >>
    THEN [t EXCEPT ![node] = Append(@, client)]
    ELSE LET child == Append(node, Head(topic))
         IN add_subscription(or_default(t, child), child, Tail(topic), client)

RECURSIVE get_matches(_, _, _, _)

\* variant: the '#' child is consulted only while a topic level is left
multi_wild_needs_level(topic, idx, t, node) ==
    IF idx < Len(topic) /\ HasChild(t, node, MultiWildcard)
    THEN t[Append(node, MultiWildcard)]
    ELSE << >>

\* get_matches: the subscriptions of the '#' child, whatever idx is
multi_wild(topic, idx, t, node) ==
    IF HasChild(t, node, MultiWildcard)
    THEN t[Append(node, MultiWildcard)]
    ELSE << >>

\* get_matches: recurse into the '+' child (no test of idx against the length)
single_wild(topic, idx, t, node) ==
    IF HasChild(t, node, SingleWildcard)
    THEN get_matches(topic, idx + 1, t, Append(node, SingleWildcard))
    ELSE << >>

\* get_matches: self.0.get(idx) and the Named child of that level
nested_named(topic, idx, t, node) ==
    IF idx < Len(topic) /\ HasChild(t, node, Named(topic[idx + 1]))
    THEN get_matches(topic, idx + 1, t, Append(node, Named(topic[idx + 1])))
    ELSE << >>

\* variant: the node's subscriptions are emitted also past the last level
current_named_past_end(topic, idx, t, node) ==
    IF idx >= Len(topic) THEN t[node] ELSE << >>

\* get_matches: the node's own subscriptions once every level is consumed
current_named(topic, idx, t, node) ==
    IF idx = Len(topic) THEN t[node] ELSE << >>

\* TopicName::get_matches (idx is 0-based as in the code)
get_matches(topic, idx, t, node) ==
    multi_wild(topic, idx, t, node)
        \o single_wild(topic, idx, t, node)
        \o nested_named(topic, idx, t, node)
        \o current_named(topic, idx, t, node)

\* struct ClientSubscription { client: ClientInformation{client_id, client_sender}, qos }
\* the sender is identified by the connection whose channel it feeds
ClientSubscription(id, conn, qos) == [client_id |-> id, sender |-> conn, qos |-> qos]

\* ------------------------------------------------------------ input sets
ClientIds == {"c1", "c2"}
Conns == 1..MaxConn

\* Option<T> is a sequence of length at most one
Some(x) == << x >>
NoneOpt == << >>

AtMostOnce == "AtMostOnce"
AtLeastOnce == "AtLeastOnce"

\* topic names and filters the clients of the broker use
TopicW == << "w" >>
TopicA == << "a" >>
FilterPlus == << "+" >>
PubTopics == {TopicW, TopicA}
SubFilters == {TopicW, FilterPlus}
Payloads == {<< "m" >>}
WillPayload == << "b", "y", "e" >>
PacketIds == {7}

\* MLastWill of a CONNECT
Wills == {NoneOpt, Some([topic |-> TopicW, payload |-> WillPayload, qos |-> AtMostOnce, retain |-> FALSE])}

\* MSubscriptionRequests: 1..MaxFilters requests, each (topic, qos)
SubRequest == [topic : SubFilters, qos : {AtLeastOnce}]
SubscriptionRequests == UNION {[1..n -> SubRequest] : n \in 1..MaxFilters}

\* ----------------------------------------------------------------- state
VARIABLES
    clients,    \* MqttServer.clients: per client id, whether an entry exists and its ClientState
    trie,       \* SubscriptionManager.subscriptions: the published SubscriptionTopic snapshot
    recv,       \* per connection, the packets read from its transport so far
    written,    \* per connection, the packets written to its transport so far
    transport,  \* per connection, "open" or "closed" (peer gone / stream dropped)
    shut,       \* per connection, whether the write half has been shut down
    client_id,  \* per connection, the ClientId of its CONNECT
    last_will,  \* per connection, the read loop's last_will: Option<MqttMessage>
    read_loop,  \* per connection, "unborn" | "running" | "done" | "failed"
    send_loop,  \* per connection, "unborn" | "running" | "done" | "panicked"
    sent,       \* per connection, every message accepted by its unbounded channel
    taken,      \* per connection, how many of those recv() has returned
    superseded, \* history: the connections that were active when their client id connected again
    keep_alive, \* per connection, the keep_alive of its CONNECT, in seconds
    idle,       \* per connection, half seconds since the read loop's sleep was last created
    budget,     \* packets the clients send after their CONNECTs, all connections together
    writers,    \* concurrent callers: per caller of subscribe, its place in rcu and its private clone
    reader,     \* concurrent callers: the place of one route_message and what it loaded
    history,    \* concurrent callers: every table published so far, the last one is current
    mFilter,    \* match walk: the filter string subscribed
    mTopic,     \* match walk: the topic string published
    mMatches,   \* match walk: the `matches` vector of route_message
    mPc,        \* match walk: "init" | "subscribed" | "routed"
    cPc,        \* codec: "idle" | "written" | "read_back" | "parsed" | "rewritten"
    cPacket,    \* codec: the packet handed to write
    cBytes,     \* codec: the bytes handed to parse, or the bytes write produced
    cParsed,    \* codec: what parse returned
    cOut,       \* codec: the bytes produced by writing the parsed packet
    kPc,        \* connector: "idle" | "returned"
    kRequest,   \* connector: the MqttClientConnector and what the server answers
    kResult,    \* connector: what connect returned
    arrived,    \* accept loop: the connections the clients have opened
    firstPacket, \* accept loop: per connection, the first packet its client has sent, if any
    accepted,   \* accept loop: the connections accept() has returned
    listening,  \* accept loop: whether accept_new_clients is still running
    wLocked,    \* writer mutex: whether a guard of ClientConnection.writer is held
    wPc,        \* writer mutex: per task, "off" | "idle" | "writing" | "shutting" | "done"
    wPacket,    \* writer mutex: per task, the packet it is writing and the chunks left
    wire,       \* writer mutex: the chunks that reached the transport, in order
    wShut       \* writer mutex: whether the write half has been shut down

brokerVars == << clients, recv, written, transport, shut, client_id, last_will,
                 read_loop, send_loop, sent, taken, superseded, keep_alive, idle >>
matchVars == << mFilter, mTopic, mMatches, mPc >>
rcuVars == << writers, reader, history >>
codecVars == << cPc, cPacket, cBytes, cParsed, cOut >>
connectorVars == << kPc, kRequest, kResult >>
acceptVars == << arrived, firstPacket, accepted, listening >>
mutexVars == << wLocked, wPc, wPacket, wire, wShut >>
vars == << clients, trie, recv, written, transport, shut, client_id, last_will,
           read_loop, send_loop, sent, taken, superseded, keep_alive, idle, budget,
           writers, reader, history, mFilter, mTopic, mMatches, mPc,
           cPc, cPacket, cBytes, cParsed, cOut, kPc, kRequest, kResult,
           arrived, firstPacket, accepted, listening,
           wLocked, wPc, wPacket, wire, wShut >>

\* ------------------------------------------------------------- messages
\* MqttMessage::new(author, payload, topic, retain, qos)
MqttMessage_new(author, payload, topic, retain, qos) ==
    [author |-> author, topic |-> topic, payload |-> payload, retain |-> retain, qos |-> qos]

\* MqttMessage::from_last_will(will, client_id)
MqttMessage_from_last_will(will, author) ==
    MqttMessage_new(author, will.payload, will.topic, will.retain, will.qos)

\* packets on the wire
Connect(id, clean, will) == [type |-> "CONNECT", client_id |-> id, clean_session |-> clean, will |-> will]
MConnack(sp) == [type |-> "CONNACK", session_present |-> sp, connect_return_code |-> "Accepted"]
\* variant: the outgoing PUBLISH keeps the QoS of the publisher
MPublish_with_publisher_qos(m) ==
    [type |-> "PUBLISH", dup |-> FALSE, qos |-> m.qos, retain |-> m.retain,
     topic_name |-> m.topic, id |-> NoneOpt, payload |-> m.payload]
MPublish(m) == [type |-> "PUBLISH", dup |-> FALSE, qos |-> AtMostOnce, retain |-> m.retain,
                topic_name |-> m.topic, id |-> NoneOpt, payload |-> m.payload]
\* variant: the PUBACK does not carry the identifier of the PUBLISH
MPuback_without_id(id) == [type |-> "PUBACK", id |-> 0]
MPuback(id) == [type |-> "PUBACK", id |-> id]

\* ------------------------------------------------------ subscription manager
\* SubscriptionManager::subscribe: sub_changes built from the requests, then
\* rcu(clone the table, add every change, publish)
RECURSIVE apply_changes(_, _, _, _)
apply_changes(t, id, conn, reqs) ==
    IF reqs = << >> THEN t
    ELSE apply_changes(
            add_subscription(t, Root, TopicFilter_parse_from(Head(reqs).topic),
                             ClientSubscription(id, conn, Head(reqs).qos)),
            id, conn, Tail(reqs))

subscribe(t, id, conn, reqs) == apply_changes(t, id, conn, reqs)

\* route_message: let matches = topic_names.get_matches(0, &routing).collect()
matches_of(t, topic) == get_matches(TopicName_parse_from(topic), 0, t, Root)

\* variant: the packet is put before the packets already accepted
publish_message_in_front(snt, sl, sub, packet) ==
    IF sl[sub.sender] = "running"
    THEN [snt EXCEPT ![sub.sender] = << packet >> \o @]
    ELSE snt

\* ClientSubscription::publish_message: `let _ = client_sender.send(packet)`;
\* the send fails, silently, once the receiver (the send loop) is gone
publish_message(snt, sl, sub, packet) ==
    IF sl[sub.sender] = "running"
    THEN [snt EXCEPT ![sub.sender] = Append(@, packet)]
    ELSE snt

\* variant: the loop over the matches ends at the first send that fails
RECURSIVE publish_all_until_failure(_, _, _, _)
publish_all_until_failure(snt, sl, matches, message) ==
    IF matches = << >> THEN snt
    ELSE IF sl[Head(matches).sender] # "running" THEN snt
    ELSE publish_all_until_failure(publish_message(snt, sl, Head(matches), message),
                                   sl, Tail(matches), message)

\* route_message: `for sub in matches { sub.publish_message(message.clone()); }`
RECURSIVE publish_all(_, _, _, _)
publish_all(snt, sl, matches, message) ==
    IF matches = << >> THEN snt
    ELSE publish_all(publish_message(snt, sl, Head(matches), message), sl, Tail(matches), message)

\* the first entry of every sender among the matches
RECURSIVE first_per_client(_, _)
first_per_client(matches, seen) ==
    IF matches = << >> THEN << >>
    ELSE IF Head(matches).sender \in seen THEN first_per_client(Tail(matches), seen)
    ELSE << Head(matches) >> \o first_per_client(Tail(matches), seen \cup {Head(matches).sender})

\* variant: a client matched by several entries is sent the message once
route_message_once_per_client(t, snt, sl, message) ==
    publish_all(snt, sl, first_per_client(matches_of(t, message.topic), {}), message)

\* SubscriptionManager::route_message, awaited
route_message(t, snt, sl, message) == publish_all(snt, sl, matches_of(t, message.topic), message)

\* `let _ = published_packets.route_message(will);` the future of the async fn
\* is created and dropped without ever being polled: its body does not run
route_message_not_awaited(t, snt, sl, message) == snt

\* ------------------------------------------------------------ session table
\* ClientState::default()
ClientState_default == [present |-> TRUE, conn |-> 0]
NoEntry == [present |-> FALSE, conn |-> 0]

contains_key(cl, id) == cl[id].present
remove(cl, id) == [cl EXCEPT ![id] = NoEntry]
entry_or_insert(cl, id) == IF cl[id].present THEN cl ELSE [cl EXCEPT ![id] = ClientState_default]

\* variant: the clean-session flag is not consulted for the answer
session_present_any_entry(cl, id, clean_session) == contains_key(cl, id)

\* connect_client: let session_present = if clean_session {remove; false} else {contains_key}
session_present(cl, id, clean_session) ==
    IF clean_session THEN FALSE ELSE contains_key(cl, id)

clients_after_clean(cl, id, clean_session) ==
    IF clean_session THEN remove(cl, id) ELSE cl

\* ClientState: the connection a state holds is closed when the state is
\* given a new connection (set_new_connection) and when the state is dropped
\* (the entry removed by a clean-session CONNECT)
held_connection(cl, id) == IF cl[id].conn = 0 THEN {} ELSE {cl[id].conn}
ClientState_drop_closes(cl, id, clean_session) ==
    IF clean_session THEN held_connection(cl, id) ELSE {}
set_new_connection_closes(cl, id) == held_connection(cl, id)
set_new_connection(cl, id, conn) == [cl EXCEPT ![id] = [present |-> TRUE, conn |-> conn]]

\* a write on a connection succeeds while the stream is open and not shut down
can_write(tr, sh, c) == tr[c] = "open" /\ ~sh[c]

\* the channel of connection c is closed once every UnboundedSender is dropped:
\* the one owned by the read task and the clones kept in the trie
sender_in_trie(t, c) == \E node \in DOMAIN t : \E i \in 1..Len(t[node]) : t[node][i].sender = c
channel_closed(t, rl, c) == rl[c] # "running" /\ ~sender_in_trie(t, c)

\* -------------------------------------------------------------------- Init
BrokerInit ==
    /\ clients = [id \in ClientIds |-> NoEntry]
    /\ recv = [c \in Conns |-> << >>]
    /\ written = [c \in Conns |-> << >>]
    /\ transport = [c \in Conns |-> "open"]
    /\ shut = [c \in Conns |-> FALSE]
    /\ client_id = [c \in Conns |-> ""]
    /\ last_will = [c \in Conns |-> NoneOpt]
    /\ read_loop = [c \in Conns |-> "unborn"]
    /\ send_loop = [c \in Conns |-> "unborn"]
    /\ sent = [c \in Conns |-> << >>]
    /\ taken = [c \in Conns |-> 0]
    /\ superseded = {}
    /\ keep_alive = [c \in Conns |-> 0]
    /\ idle = [c \in Conns |-> 0]

MatchIdle ==
    /\ mFilter = << >>
    /\ mTopic = << >>
    /\ mMatches = << >>
    /\ mPc = "off"

\* no caller of the subscription manager is tracked step by step
\* no packet is being encoded or decoded
NoPacket == [kind |-> "none"]
NoResult == [ok |-> FALSE, why |-> "none"]
CodecIdle ==
    /\ cPc = "idle"
    /\ cPacket = NoPacket
    /\ cBytes = << >>
    /\ cParsed = NoResult
    /\ cOut = << >>

\* no client is connecting
ConnectorIdle ==
    /\ kPc = "idle"
    /\ kRequest = NoPacket
    /\ kResult = NoResult

\* the accept loop is not looked at step by step: accept and the read of the
\* first packet are one step
AcceptIdle ==
    /\ arrived = {}
    /\ firstPacket = [c \in Conns |-> NoneOpt]
    /\ accepted = {}
    /\ listening = TRUE

\* the writer mutex of a connection is not looked at step by step: a write
\* to a transport is one step
NoWrite == [kind |-> "none", no |-> 0, left |-> 0]
WriterIdle ==
    /\ wLocked = FALSE
    /\ wPc = [t \in {"read_loop", "send_loop"} |-> "off"]
    /\ wPacket = [t \in {"read_loop", "send_loop"} |-> NoWrite]
    /\ wire = << >>
    /\ wShut = FALSE

RcuIdle ==
    /\ writers = << >>
    /\ reader = << >>
    /\ history = << >>

Init ==
    /\ BrokerInit
    /\ budget = MaxPackets
    /\ CodecIdle
    /\ ConnectorIdle
    /\ AcceptIdle
    /\ WriterIdle
    /\ trie = SubscriptionTopic_default
    /\ MatchIdle
    /\ RcuIdle

\* ----------------------------------------------------------- accept_client
\* accept_new_clients awaits accept_client for one stream before the next
NextToAccept(c) == recv[c] = << >> /\ (IF c = 1 THEN TRUE ELSE recv[c - 1] # << >>)

\* first packet is a CONNECT: connect_client
AcceptConnect(c, id, clean_session, will, connack_ok, ka) ==
    LET cl1 == clients_after_clean(clients, id, clean_session)
        sp == session_present(clients, id, clean_session)
        cl2 == entry_or_insert(cl1, id)
        old == ClientState_drop_closes(clients, id, clean_session)
                   \cup set_new_connection_closes(cl2, id)
    IN
    /\ NextToAccept(c)
    /\ recv' = [recv EXCEPT ![c] = << Connect(id, clean_session, will) >>]
    /\ IF connack_ok
       THEN /\ written' = [written EXCEPT ![c] = Append(@, MConnack(sp))]
            /\ clients' = set_new_connection(cl2, id, c)
            /\ transport' = [x \in Conns |-> IF x \in old THEN "closed" ELSE transport[x]]
            /\ client_id' = [client_id EXCEPT ![c] = id]
            /\ last_will' = [last_will EXCEPT ![c] =
                    IF will = NoneOpt THEN NoneOpt
                    ELSE Some(MqttMessage_from_last_will(will[1], id))]
            /\ read_loop' = [read_loop EXCEPT ![c] = "running"]
            /\ send_loop' = [send_loop EXCEPT ![c] = "running"]
            /\ keep_alive' = [keep_alive EXCEPT ![c] = ka]
            /\ idle' = [idle EXCEPT ![c] = 0]
            /\ superseded' = superseded \cup
                    {a \in Conns : client_id[a] = id /\ read_loop[a] = "running"}
       ELSE \* send_connack(..).await? fails: the stream is dropped, nothing is spawned
            /\ clients' = cl1
            /\ transport' = [x \in Conns |->
                    IF x = c \/ x \in ClientState_drop_closes(clients, id, clean_session)
                    THEN "closed" ELSE transport[x]]
            /\ UNCHANGED << written, client_id, last_will, read_loop, send_loop, superseded,
                            keep_alive, idle >>
    /\ UNCHANGED << trie, shut, sent, taken, matchVars, rcuVars, budget, codecVars, connectorVars, acceptVars, mutexVars >>

\* first read fails (`?`) or the first packet is not a CONNECT (client.shutdown())
AcceptReject(c, first) ==
    /\ NextToAccept(c)
    /\ recv' = [recv EXCEPT ![c] = << [type |-> first] >>]
    /\ shut' = [shut EXCEPT ![c] = (first # "ERROR")]
    /\ transport' = [transport EXCEPT ![c] = "closed"]
    /\ UNCHANGED << clients, trie, written, client_id, last_will, read_loop, send_loop,
                    sent, taken, superseded, keep_alive, idle, matchVars, rcuVars, budget, codecVars, connectorVars, acceptVars, mutexVars >>

\* --------------------------------------------------------------- read loop
\* let keep_alive_duration = Duration::from_secs((keep_alive as u64 * 150) / 100),
\* counted in half seconds
keep_alive_duration(ka) == 2 * ((ka * 150) \div 100)

\* every iteration of the loop builds a new `tokio::time::sleep(keep_alive_duration)`
restart_sleep(idl, c) == [idl EXCEPT ![c] = 0]

\* the number of packets read by the read loops so far (the CONNECTs not counted)
RECURSIVE PacketsRead(_)
PacketsRead(c) ==
    IF c = 0 THEN 0
    ELSE PacketsRead(c - 1) + (IF read_loop[c] = "unborn" THEN 0 ELSE Len(recv[c]) - 1)

\* a packet can arrive while the loop runs, the stream is open and the clients
\* have packets left to send
CanReceive(c) ==
    /\ read_loop[c] = "running"
    /\ transport[c] = "open"
    /\ PacketsRead(MaxConn) < budget

\* variant: the DISCONNECT arm leaves the will in place
disconnect_last_will_kept(w) == w

\* MPacket::Disconnect arm: last_will.take()
disconnect_last_will(w) == NoneOpt

\* variant: the writer is left as it is
shutdown_skipped(sh, c) == sh

\* client_connection.writer.lock().await.shutdown().await
shutdown(sh, c) == [sh EXCEPT ![c] = TRUE]

\* the code after the loop: the will, then writer.shutdown(), then the task
\* ends and its UnboundedSender is dropped
AfterLoop(c, will, snt) ==
    /\ sent' = IF will # NoneOpt
               THEN route_message_not_awaited(trie, snt, send_loop, will[1])
               ELSE snt
    /\ shut' = shutdown(shut, c)
    /\ read_loop' = [read_loop EXCEPT ![c] = "done"]

\* MPacket::Publish arm: route, then PUBACK for QoS 1 (`write_packet(..).await?`)
RecvPublish(c, topic, payload, qos, retain, id, drop) ==
    LET message == MqttMessage_new(client_id[c], payload, topic, retain, qos)
        tr1 == IF drop THEN [transport EXCEPT ![c] = "closed"] ELSE transport
    IN
    /\ CanReceive(c)
    /\ recv' = [recv EXCEPT ![c] = Append(@, [type |-> "PUBLISH", topic_name |-> topic,
                    payload |-> payload, qos |-> qos, retain |-> retain, id |-> id])]
    /\ sent' = route_message(trie, sent, send_loop, message)
    /\ transport' = tr1
    /\ IF qos = AtLeastOnce
       THEN IF can_write(tr1, shut, c)
            THEN /\ written' = [written EXCEPT ![c] = Append(@, MPuback(id[1]))]
                 /\ UNCHANGED read_loop
            ELSE \* the `?` leaves the task: no will, no shutdown
                 /\ read_loop' = [read_loop EXCEPT ![c] = "failed"]
                 /\ UNCHANGED written
       ELSE UNCHANGED << written, read_loop >>
    /\ idle' = restart_sleep(idle, c)
    /\ UNCHANGED << clients, trie, shut, client_id, last_will, send_loop, taken, superseded,
                    keep_alive, matchVars, rcuVars, budget, codecVars, connectorVars, acceptVars, mutexVars >>

\* MPacket::Subscribe arm: subscription_manager.subscribe(..); nothing is written
RecvSubscribe(c, reqs) ==
    /\ CanReceive(c)
    /\ recv' = [recv EXCEPT ![c] = Append(@, [type |-> "SUBSCRIBE", subscriptions |-> reqs])]
    /\ trie' = subscribe(trie, client_id[c], c, reqs)
    /\ idle' = restart_sleep(idle, c)
    /\ UNCHANGED << clients, written, transport, shut, client_id, last_will, read_loop,
                    send_loop, sent, taken, superseded, keep_alive, matchVars, rcuVars, budget, codecVars, connectorVars, acceptVars, mutexVars >>

\* an UNSUBSCRIBE has no arm of its own: `packet => info!(..)`
RecvUnsubscribe(c, filter) ==
    /\ CanReceive(c)
    /\ recv' = [recv EXCEPT ![c] = Append(@, [type |-> "UNSUBSCRIBE", topic |-> filter])]
    /\ idle' = restart_sleep(idle, c)
    /\ UNCHANGED << clients, trie, written, transport, shut, client_id, last_will, read_loop,
                    send_loop, sent, taken, superseded, keep_alive, matchVars, rcuVars, budget, codecVars, connectorVars, acceptVars, mutexVars >>

\* Pubrel / Pubrec / Pubcomp arms are empty, every other packet is logged
RecvOther(c, type) ==
    /\ CanReceive(c)
    /\ recv' = [recv EXCEPT ![c] = Append(@, [type |-> type])]
    /\ idle' = restart_sleep(idle, c)
    /\ UNCHANGED << clients, trie, written, transport, shut, client_id, last_will, read_loop,
                    send_loop, sent, taken, superseded, keep_alive, matchVars, rcuVars, budget, codecVars, connectorVars, acceptVars, mutexVars >>

\* MPacket::Disconnect arm: take the will, break, then the code after the loop
RecvDisconnect(c) ==
    LET will == disconnect_last_will(last_will[c]) IN
    /\ CanReceive(c)
    /\ recv' = [recv EXCEPT ![c] = Append(@, [type |-> "DISCONNECT"])]
    /\ last_will' = [last_will EXCEPT ![c] = will]
    /\ AfterLoop(c, will, sent)
    /\ UNCHANGED << clients, trie, written, transport, client_id, send_loop, taken, superseded,
                    keep_alive, idle, matchVars, rcuVars, budget, codecVars, connectorVars, acceptVars, mutexVars >>

\* read_one_packet returns a decoding error for the bytes that arrived: the
\* same Err arm, break, then the code after the loop
RecvMalformed(c) ==
    /\ CanReceive(c)
    /\ recv' = [recv EXCEPT ![c] = Append(@, [type |-> "MALFORMED"])]
    /\ AfterLoop(c, last_will[c], sent)
    /\ UNCHANGED << clients, trie, written, transport, client_id, last_will, send_loop, taken,
                    superseded, keep_alive, idle, matchVars, rcuVars, budget, codecVars, connectorVars, acceptVars, mutexVars >>

\* the client drops its transport without a DISCONNECT
ClientDrop(c) ==
    /\ read_loop[c] = "running"
    /\ transport[c] = "open"
    /\ transport' = [transport EXCEPT ![c] = "closed"]
    /\ UNCHANGED << clients, trie, recv, written, shut, client_id, last_will, read_loop,
                    send_loop, sent, taken, superseded, keep_alive, idle, matchVars, rcuVars, budget, codecVars, connectorVars, acceptVars, mutexVars >>

\* read_one_packet returns an error: break, then the code after the loop
ReadError(c) ==
    /\ read_loop[c] = "running"
    /\ transport[c] = "closed"
    /\ AfterLoop(c, last_will[c], sent)
    /\ UNCHANGED << clients, trie, recv, written, transport, client_id, last_will,
                    send_loop, taken, superseded, keep_alive, idle, matchVars, rcuVars, budget, codecVars, connectorVars, acceptVars, mutexVars >>

\* the keep-alive sleep wins the select!: break, then the code after the loop
ReadTimeout(c) ==
    /\ read_loop[c] = "running"
    /\ idle[c] >= keep_alive_duration(keep_alive[c])
    /\ AfterLoop(c, last_will[c], sent)
    /\ UNCHANGED << clients, trie, recv, written, transport, client_id, last_will,
                    send_loop, taken, superseded, keep_alive, idle, matchVars, rcuVars, budget, codecVars, connectorVars, acceptVars, mutexVars >>

\* --------------------------------------------------------------- send loop
\* variant: no message counts as the client's own
is_own_message_never(packet, publisher_client_id) == FALSE

\* `packet.author_id() == &*publisher_client_id`
is_own_message(packet, publisher_client_id) == packet.author = publisher_client_id

\* recv() returns Some(packet): skip the client's own message, else write a
\* PUBLISH and unwrap() the result
SendLoopStep(c) ==
    /\ send_loop[c] = "running"
    /\ taken[c] < Len(sent[c])
    /\ taken' = [taken EXCEPT ![c] = @ + 1]
    /\ LET packet == sent[c][taken[c] + 1] IN
       IF is_own_message(packet, client_id[c])
       THEN UNCHANGED << written, send_loop >>
       ELSE IF can_write(transport, shut, c)
            THEN /\ written' = [written EXCEPT ![c] = Append(@, MPublish(packet))]
                 /\ UNCHANGED send_loop
            ELSE /\ send_loop' = [send_loop EXCEPT ![c] = "panicked"]
                 /\ UNCHANGED written
    /\ UNCHANGED << clients, trie, recv, transport, shut, client_id, last_will, read_loop,
                    sent, superseded, keep_alive, idle, matchVars, rcuVars, budget, codecVars, connectorVars, acceptVars, mutexVars >>

\* recv() returns None: every sender is gone and the queue is drained
SendLoopExit(c) ==
    /\ send_loop[c] = "running"
    /\ taken[c] = Len(sent[c])
    /\ channel_closed(trie, read_loop, c)
    /\ send_loop' = [send_loop EXCEPT ![c] = "done"]
    /\ UNCHANGED << clients, trie, recv, written, transport, shut, client_id, last_will,
                    read_loop, sent, taken, superseded, keep_alive, idle, matchVars, rcuVars, budget, codecVars, connectorVars, acceptVars, mutexVars >>

\* ------------------------------------------------------------------- Next
Next ==
    \/ \E c \in Conns, id \in ClientIds, clean \in BOOLEAN, will \in Wills, ok \in BOOLEAN :
            AcceptConnect(c, id, clean, will, ok, 0)
    \/ \E c \in Conns, first \in {"PINGREQ", "ERROR"} : AcceptReject(c, first)
    \/ \E c \in Conns, topic \in PubTopics, payload \in Payloads :
            RecvPublish(c, topic, payload, AtMostOnce, FALSE, NoneOpt, FALSE)
    \/ \E c \in Conns, topic \in PubTopics, payload \in Payloads, id \in PacketIds, drop \in BOOLEAN :
            RecvPublish(c, topic, payload, AtLeastOnce, FALSE, Some(id), drop)
    \/ \E c \in Conns, reqs \in SubscriptionRequests : RecvSubscribe(c, reqs)
    \/ \E c \in Conns, filter \in SubFilters : RecvUnsubscribe(c, filter)
    \/ \E c \in Conns : RecvOther(c, "PINGREQ")
    \/ \E c \in Conns : RecvDisconnect(c)
    \/ \E c \in Conns : RecvMalformed(c)
    \/ \E c \in Conns : ClientDrop(c)
    \/ \E c \in Conns : ReadError(c)
    \/ \E c \in Conns : ReadTimeout(c)
    \/ \E c \in Conns : SendLoopStep(c)
    \/ \E c \in Conns : SendLoopExit(c)

Spec == Init /\ [][Next]_vars

\* the scheduler runs every task that can make a step; clients owe nothing
FairSpec ==
    /\ Spec
    /\ \A c \in Conns : WF_vars(ReadError(c)) /\ WF_vars(SendLoopStep(c)) /\ WF_vars(SendLoopExit(c))

\* ================================================================ delivery
\* The same broker with clients that connect without a will and keep their
\* session, subscribe and publish at QoS 0, and have a larger budget of packets.
DeliveryInit ==
    /\ BrokerInit
    /\ budget = MaxDelivery
    /\ CodecIdle
    /\ ConnectorIdle
    /\ AcceptIdle
    /\ WriterIdle
    /\ trie = SubscriptionTopic_default
    /\ MatchIdle
    /\ RcuIdle

DeliveryNext ==
    \/ \E c \in Conns, id \in ClientIds : AcceptConnect(c, id, FALSE, NoneOpt, TRUE, 0)
    \/ \E c \in Conns, topic \in PubTopics, payload \in Payloads :
            RecvPublish(c, topic, payload, AtMostOnce, FALSE, NoneOpt, FALSE)
    \/ \E c \in Conns, reqs \in SubscriptionRequests : RecvSubscribe(c, reqs)
    \/ \E c \in Conns : ClientDrop(c)
    \/ \E c \in Conns : ReadError(c)
    \/ \E c \in Conns : ReadTimeout(c)
    \/ \E c \in Conns : SendLoopStep(c)
    \/ \E c \in Conns : SendLoopExit(c)

DeliverySpec == DeliveryInit /\ [][DeliveryNext]_vars

\* =============================================================== isolation
\* Two clients that both subscribe to "+" and publish, with transports that
\* go away: the budget allows two subscriptions and two publishes.
IsolationInit ==
    /\ BrokerInit
    /\ budget = MaxIsolation
    /\ CodecIdle
    /\ ConnectorIdle
    /\ AcceptIdle
    /\ WriterIdle
    /\ trie = SubscriptionTopic_default
    /\ MatchIdle
    /\ RcuIdle

IsolationNext ==
    \/ \E c \in Conns, id \in ClientIds : AcceptConnect(c, id, FALSE, NoneOpt, TRUE, 0)
    \/ \E c \in Conns, topic \in PubTopics, payload \in Payloads :
            RecvPublish(c, topic, payload, AtMostOnce, FALSE, NoneOpt, FALSE)
    \/ \E c \in Conns : RecvSubscribe(c, << [topic |-> FilterPlus, qos |-> AtLeastOnce] >>)
    \/ \E c \in Conns : ClientDrop(c)
    \/ \E c \in Conns : ReadError(c)
    \/ \E c \in Conns : SendLoopStep(c)
    \/ \E c \in Conns : SendLoopExit(c)

IsolationSpec == IsolationInit /\ [][IsolationNext]_vars

\* =============================================================== integrity
\* Publishes of every QoS, with and without retain and with two payloads,
\* to subscriptions of either QoS.
IntegrityPayloads == {<< "m" >>, << "n", "n" >>}

IntegrityInit ==
    /\ BrokerInit
    /\ budget = MaxIntegrity
    /\ CodecIdle
    /\ ConnectorIdle
    /\ AcceptIdle
    /\ WriterIdle
    /\ trie = SubscriptionTopic_default
    /\ MatchIdle
    /\ RcuIdle

IntegrityNext ==
    \/ \E c \in Conns, id \in ClientIds, will \in Wills : AcceptConnect(c, id, FALSE, will, TRUE, 0)
    \/ \E c \in Conns, topic \in PubTopics, payload \in IntegrityPayloads, retain \in BOOLEAN :
            RecvPublish(c, topic, payload, AtMostOnce, retain, NoneOpt, FALSE)
    \/ \E c \in Conns, topic \in PubTopics, payload \in IntegrityPayloads, retain \in BOOLEAN,
          id \in PacketIds :
            RecvPublish(c, topic, payload, AtLeastOnce, retain, Some(id), FALSE)
    \/ \E c \in Conns, qos \in {AtMostOnce, AtLeastOnce} :
            RecvSubscribe(c, << [topic |-> FilterPlus, qos |-> qos] >>)
    \/ \E c \in Conns : RecvDisconnect(c)
    \/ \E c \in Conns : ClientDrop(c)
    \/ \E c \in Conns : ReadError(c)
    \/ \E c \in Conns : SendLoopStep(c)
    \/ \E c \in Conns : SendLoopExit(c)

IntegritySpec == IntegrityInit /\ [][IntegrityNext]_vars

\* ========================================================= acknowledgement
\* Clients that publish at QoS 0 and at QoS 1 with two packet identifiers, to a
\* subscriber of "+"; the transport of a publisher may close between the read
\* of its PUBLISH and the write of the PUBACK.
AckPacketIds == {7, 300}

AckInit ==
    /\ BrokerInit
    /\ budget = MaxAck
    /\ CodecIdle
    /\ ConnectorIdle
    /\ AcceptIdle
    /\ WriterIdle
    /\ trie = SubscriptionTopic_default
    /\ MatchIdle
    /\ RcuIdle

AckNext ==
    \/ \E c \in Conns, id \in ClientIds : AcceptConnect(c, id, FALSE, NoneOpt, TRUE, 0)
    \/ \E c \in Conns, topic \in PubTopics, payload \in Payloads :
            RecvPublish(c, topic, payload, AtMostOnce, FALSE, NoneOpt, FALSE)
    \/ \E c \in Conns, topic \in PubTopics, payload \in Payloads, id \in AckPacketIds,
          drop \in BOOLEAN :
            RecvPublish(c, topic, payload, AtLeastOnce, FALSE, Some(id), drop)
    \/ \E c \in Conns : RecvSubscribe(c, << [topic |-> FilterPlus, qos |-> AtLeastOnce] >>)
    \/ \E c \in Conns : ClientDrop(c)
    \/ \E c \in Conns : ReadError(c)
    \/ \E c \in Conns : SendLoopStep(c)
    \/ \E c \in Conns : SendLoopExit(c)

AckSpec == AckInit /\ [][AckNext]_vars

\* ============================================================ writer mutex
\* One connection, its two tasks and the Mutex<WriteHalf> they share: the
\* read loop writes PUBACKs and at last shuts the writer down, the send loop
\* writes PUBLISHes. A task asks for the lock, holds the guard while
\* write_packet hands the bytes of the packet to the transport chunk by chunk,
\* and drops the guard when the statement ends, by return, `?` or panic.
WriterTasks == {"read_loop", "send_loop"}
WritesOf(t) == IF t = "read_loop" THEN {"PUBACK", "shutdown"} ELSE {"PUBLISH"}

\* variant: lock() hands out a guard whether or not another one exists
Mutex_lock_unguarded(held) == TRUE
\* tokio::sync::Mutex::lock().await completes when no other guard exists
Mutex_lock(held) == ~held

\* `writer.lock()` is called: the task waits at the await
WriterRequest(t, kind) ==
    /\ wPc[t] = "idle"
    /\ kind \in WritesOf(t)
    /\ kind # "shutdown" => wPacket[t].no < MaxWrites
    /\ wPc' = [wPc EXCEPT ![t] = "waiting"]
    /\ wPacket' = [wPacket EXCEPT ![t] =
            IF kind = "shutdown" THEN [@ EXCEPT !.kind = kind]
            ELSE [kind |-> kind, no |-> @.no + 1, left |-> PacketChunks]]
    /\ UNCHANGED << wLocked, wire, wShut >>
    /\ UNCHANGED << brokerVars, trie, matchVars, rcuVars, budget, codecVars, connectorVars,
                    acceptVars >>

\* the await returns the guard
WriterLock(t) ==
    /\ wPc[t] = "waiting"
    /\ Mutex_lock(wLocked)
    /\ wLocked' = TRUE
    /\ wPc' = [wPc EXCEPT ![t] = IF wPacket[t].kind = "shutdown" THEN "shutting" ELSE "writing"]
    /\ UNCHANGED << wPacket, wire, wShut >>
    /\ UNCHANGED << brokerVars, trie, matchVars, rcuVars, budget, codecVars, connectorVars,
                    acceptVars >>

\* write_packet: the next chunk of the packet goes to the transport and after
\* the last one the guard is dropped; on a writer that is shut down the write
\* fails, `?` or unwrap() ends the task and the guard is dropped
WriteChunk(t) ==
    /\ wPc[t] = "writing"
    /\ IF wShut
       THEN /\ wPc' = [wPc EXCEPT ![t] = "done"]
            /\ wLocked' = FALSE
            /\ UNCHANGED << wPacket, wire >>
       ELSE /\ wire' = Append(wire, [task |-> t, no |-> wPacket[t].no,
                                     chunk |-> PacketChunks - wPacket[t].left + 1])
            /\ wPacket' = [wPacket EXCEPT ![t].left = @ - 1]
            /\ IF wPacket[t].left = 1
               THEN wPc' = [wPc EXCEPT ![t] = "idle"] /\ wLocked' = FALSE
               ELSE UNCHANGED << wPc, wLocked >>
    /\ UNCHANGED wShut
    /\ UNCHANGED << brokerVars, trie, matchVars, rcuVars, budget, codecVars, connectorVars,
                    acceptVars >>

\* the code after the read loop: writer.lock().await.shutdown().await, then
\* the task ends
WriterShutdown ==
    /\ wPc["read_loop"] = "shutting"
    /\ wShut' = TRUE
    /\ wLocked' = FALSE
    /\ wPc' = [wPc EXCEPT !["read_loop"] = "done"]
    /\ UNCHANGED << wPacket, wire >>
    /\ UNCHANGED << brokerVars, trie, matchVars, rcuVars, budget, codecVars, connectorVars,
                    acceptVars >>

WriterInit ==
    /\ BrokerInit
    /\ budget = 0
    /\ trie = SubscriptionTopic_default
    /\ MatchIdle
    /\ RcuIdle
    /\ CodecIdle
    /\ ConnectorIdle
    /\ AcceptIdle
    /\ wLocked = FALSE
    /\ wPc = [t \in WriterTasks |-> "idle"]
    /\ wPacket = [t \in WriterTasks |-> NoWrite]
    /\ wire = << >>
    /\ wShut = FALSE

WriterNext ==
    \/ \E t \in WriterTasks, kind \in {"PUBACK", "PUBLISH", "shutdown"} : WriterRequest(t, kind)
    \/ \E t \in WriterTasks : WriterLock(t)
    \/ \E t \in WriterTasks : WriteChunk(t)
    \/ WriterShutdown

WriterSpec == WriterInit /\ [][WriterNext]_vars

\* ============================================================== keep-alive
\* The read loops against a clock: clients connect with a keep_alive, send
\* PINGREQs or nothing, and time passes in half seconds.
KeepAlives == {0, 1, 2}

KeepAliveInit ==
    /\ BrokerInit
    /\ budget = MaxPings
    /\ CodecIdle
    /\ ConnectorIdle
    /\ AcceptIdle
    /\ WriterIdle
    /\ trie = SubscriptionTopic_default
    /\ MatchIdle
    /\ RcuIdle

\* half a second passes for every read loop that waits in its select!
Tick ==
    /\ \E c \in Conns : read_loop[c] = "running" /\ idle[c] < MaxIdle
    /\ idle' = [c \in Conns |->
            IF read_loop[c] = "running" /\ idle[c] < MaxIdle THEN idle[c] + 1 ELSE idle[c]]
    /\ UNCHANGED << clients, trie, recv, written, transport, shut, client_id, last_will,
                    read_loop, send_loop, sent, taken, superseded, keep_alive,
                    matchVars, rcuVars, budget, codecVars, connectorVars, acceptVars, mutexVars >>

KeepAliveNext ==
    \/ \E c \in Conns, id \in ClientIds, ka \in KeepAlives :
            AcceptConnect(c, id, FALSE, NoneOpt, TRUE, ka)
    \/ \E c \in Conns : RecvOther(c, "PINGREQ")
    \/ \E c \in Conns : RecvDisconnect(c)
    \/ \E c \in Conns : ClientDrop(c)
    \/ \E c \in Conns : ReadError(c)
    \/ \E c \in Conns : ReadTimeout(c)
    \/ Tick

KeepAliveSpec == KeepAliveInit /\ [][KeepAliveNext]_vars

\* ====================================================== concurrent callers
\* SubscriptionManager under concurrent callers: the read loops of the
\* connections call subscribe, each with the requests of one SUBSCRIBE, while
\* another read loop calls route_message.  ArcSwap::rcu is: load the current
\* table; run the closure on it (clone, add every change); compare-and-swap
\* the result against the loaded pointer; on failure take the pointer found
\* and run the closure again.  A pointer is the index of a table in `history`.
TopicWPlus == << "w", "/", "+" >>
TopicWA == << "w", "/", "a" >>
RcuFilters == SubFilters \cup {TopicWPlus}
RcuTopics == PubTopics \cup {TopicWA}
RcuRequests == UNION {[1..n -> [topic : RcuFilters, qos : {AtLeastOnce}]] : n \in 1..MaxFilters}
RcuClientId(w) == IF w = 1 THEN "c1" ELSE "c2"

RcuInit ==
    /\ BrokerInit
    /\ budget = 0
    /\ CodecIdle
    /\ ConnectorIdle
    /\ AcceptIdle
    /\ WriterIdle
    /\ trie = SubscriptionTopic_default
    /\ MatchIdle
    /\ history = << SubscriptionTopic_default >>
    /\ writers \in [Conns -> [pc : {"start"}, reqs : RcuRequests, cur : {0},
                               subs : {SubscriptionTopic_default}, i : {1}, runs : {0}]]
    /\ reader \in [pc : {"start"}, topic : RcuTopics, routing : {0}, matches : {<< >>}]

\* rcu: `let mut cur = self.load()`, and the closure starts: SubscriptionTopic::clone(old_table)
RcuLoad(w) ==
    /\ writers[w].pc = "start"
    /\ writers' = [writers EXCEPT ![w] = [@ EXCEPT !.pc = "add", !.cur = Len(history),
                        !.subs = history[Len(history)], !.i = 1, !.runs = 1]]
    /\ UNCHANGED << brokerVars, matchVars, trie, reader, history, budget, codecVars, connectorVars, acceptVars, mutexVars >>

\* variant: the changes count as applied once the first of them is
changes_applied_after_first(i, reqs) == i > 1

\* `for (topic, client) in sub_changes.clone()` has run through every change
changes_applied(i, reqs) == i > Len(reqs)

\* the closure: subs.add_subscription(topic, client) for the next change, on the clone
RcuAdd(w) ==
    LET wr == writers[w]
        req == wr.reqs[wr.i]
    IN
    /\ wr.pc = "add"
    /\ ~changes_applied(wr.i, wr.reqs)
    /\ writers' = [writers EXCEPT ![w] = [@ EXCEPT
            !.subs = add_subscription(wr.subs, Root, TopicFilter_parse_from(req.topic),
                                      ClientSubscription(RcuClientId(w), w, req.qos)),
            !.i = wr.i + 1]]
    /\ UNCHANGED << brokerVars, matchVars, trie, reader, history, budget, codecVars, connectorVars, acceptVars, mutexVars >>

\* variant: the new table is stored whatever the current pointer is
swap_unconditionally(cur, current) == TRUE

\* rcu: compare_and_swap(&cur, new) swaps iff the current pointer is still `cur`
compare_and_swap(cur, current) == cur = current

\* rcu: the closure has returned; publish its table, or run it again on the table found
RcuSwap(w) ==
    LET wr == writers[w] IN
    /\ wr.pc = "add"
    /\ changes_applied(wr.i, wr.reqs)
    /\ IF compare_and_swap(wr.cur, Len(history))
       THEN /\ history' = Append(history, wr.subs)
            /\ trie' = wr.subs
            /\ writers' = [writers EXCEPT ![w] = [@ EXCEPT !.pc = "done"]]
       ELSE /\ writers' = [writers EXCEPT ![w] = [@ EXCEPT !.cur = Len(history),
                                !.subs = history[Len(history)], !.i = 1, !.runs = wr.runs + 1]]
            /\ UNCHANGED << history, trie >>
    /\ UNCHANGED << brokerVars, matchVars, reader, budget, codecVars, connectorVars, acceptVars, mutexVars >>

\* route_message: let routing = self.subscriptions.load()
RouteLoad ==
    /\ reader.pc = "start"
    /\ reader' = [reader EXCEPT !.pc = "loaded", !.routing = Len(history)]
    /\ UNCHANGED << brokerVars, matchVars, trie, writers, history, budget, codecVars, connectorVars, acceptVars, mutexVars >>

\* route_message: topic_names.get_matches(0, &routing).collect()
RouteMatch ==
    /\ reader.pc = "loaded"
    /\ reader' = [reader EXCEPT !.pc = "matched",
                        !.matches = matches_of(history[reader.routing], reader.topic)]
    /\ UNCHANGED << brokerVars, matchVars, trie, writers, history, budget, codecVars, connectorVars, acceptVars, mutexVars >>

RcuNext ==
    \/ \E w \in Conns : RcuLoad(w)
    \/ \E w \in Conns : RcuAdd(w)
    \/ \E w \in Conns : RcuSwap(w)
    \/ RouteLoad
    \/ RouteMatch

RcuSpec == RcuInit /\ [][RcuNext]_vars

\* =================================================================== codec
\* The v5 DISCONNECT and PUBREL packets. A byte is an integer in 0..255, a
\* parser returns the value it read and the bytes it left unread, a writer
\* returns the bytes it appends to the buffer.
MaxBody == 5        \* longest packet body handed to the parser byte by byte
LongLen == 130      \* length of the long reason string handed to the writer

Ok(value, rest) == [ok |-> TRUE, value |-> value, rest |-> rest]
Err(why) == [ok |-> FALSE, why |-> why]
\* a parser run on a slice of the input: what it left of the slice is followed
\* by the input after the slice
on_slice(r, after) == IF ~r.ok THEN r ELSE Ok(r.value, r.rest \o after)
Take(bytes, n) == SubSeq(bytes, 1, n)
Drop(bytes, n) == SubSeq(bytes, n + 1, Len(bytes))

\* WriteMqttPacket::write_u16: high byte, then low byte
write_u16(u) == << (u \div 256) % 256, u % 256 >>
\* WriteMqttPacket::write_u32: to_be_bytes
write_u32(u) ==
    << (u \div 16777216) % 256, (u \div 65536) % 256, (u \div 256) % 256, u % 256 >>
parse_u16(input) ==
    IF Len(input) < 2 THEN Err("Incomplete")
    ELSE Ok(input[1] * 256 + input[2], Drop(input, 2))
parse_u32(input) ==
    IF Len(input) < 4 THEN Err("Incomplete")
    ELSE Ok(input[1] * 16777216 + input[2] * 65536 + input[3] * 256 + input[4], Drop(input, 4))

\* variable byte integer: seven bits per byte, low group first, at most 4 bytes
RECURSIVE write_variable_u32(_)
write_variable_u32(u) ==
    IF u < 128 THEN << u >>
    ELSE << (u % 128) + 128 >> \o write_variable_u32(u \div 128)
variable_u32_binary_size(u) == Len(write_variable_u32(u))
RECURSIVE variable_u32_from(_, _, _, _)
variable_u32_from(input, idx, mult, acc) ==
    IF idx > 4 THEN Err("MalformedVarInt")
    ELSE IF idx > Len(input) THEN Err("Incomplete")
    ELSE LET v == acc + (input[idx] % 128) * mult IN
         IF input[idx] >= 128 THEN variable_u32_from(input, idx + 1, mult * 128, v)
         ELSE Ok(v, Drop(input, idx))
parse_variable_u32(input) == variable_u32_from(input, 1, 1, 0)

\* an MQTT string: two bytes of length, then the bytes. The byte sets used
\* here hold no UTF-8 lead byte, so a string is well formed iff every byte
\* is an ASCII character other than NUL.
is_mqtt_string(s) == \A i \in 1..Len(s) : s[i] \in 1..127
write_string(s) == write_u16(Len(s)) \o s
parse_string(input) ==
    LET l == parse_u16(input) IN
    IF ~l.ok THEN l
    ELSE IF Len(l.rest) < l.value THEN Err("Incomplete")
    ELSE IF ~is_mqtt_string(Take(l.rest, l.value)) THEN Err("MalformedUtf8")
    ELSE Ok(Take(l.rest, l.value), Drop(l.rest, l.value))

\* make_combined_reason_code!: the variants of an enum and their bytes
DisconnectReasonCode ==
    [NormalDisconnection |-> 0, DisconnectWithWillMessage |-> 4, UnspecifiedError |-> 128,
     MalformedPacket |-> 129, ProtocolError |-> 130, ImplementationSpecificError |-> 131,
     NotAuthorized |-> 135, ServerBusy |-> 137, ServerShuttingDown |-> 139,
     BadAuthenticationMethod |-> 140, KeepAliveTimeout |-> 141, SessionTakenOver |-> 142,
     TopicFilterInvalid |-> 143, TopicNameInvalid |-> 144, ReceiveMaximumExceeded |-> 147,
     TopicAliasInvalid |-> 148, PacketTooLarge |-> 149, MessageRateTooHigh |-> 150,
     QuotaExceeded |-> 151, AdministrativeAction |-> 152, PayloadFormatInvalid |-> 153,
     RetainNotSupported |-> 154, QoSNotSupported |-> 155, UseAnotherServer |-> 156,
     ServerMoved |-> 157, SharedSubscriptionsNotSupported |-> 158,
     ConnectionRateExceeded |-> 159, MaximumConnectTime |-> 160,
     SubscriptionIdentifiersNotSupported |-> 161, WildcardSubscriptionsNotSupported |-> 162]
PubrelReasonCode == [Success |-> 0, PacketIdentifierNotFound |-> 146]

\* <enum>::parse: one byte, which has to be the byte of a variant
ReasonCode_parse(codes, input) ==
    IF input = << >> THEN Err("Incomplete")
    ELSE IF \E name \in DOMAIN codes : codes[name] = input[1]
    THEN Ok(CHOOSE name \in DOMAIN codes : codes[name] = input[1], Drop(input, 1))
    ELSE Err("MalformedPacket")
\* <enum>::write and <enum>::binary_size
ReasonCode_write(codes, name) == << codes[name] >>
ReasonCode_binary_size(codes, name) == Len(ReasonCode_write(codes, name))

\* define_properties!: the properties of a packet in the order they are declared
DisconnectProperties ==
    << "session_expiry_interval", "reason_string", "user_properties", "server_reference" >>
PubrelProperties == << "reason_string", "user_properties" >>
PropertyIdentifier ==
    [session_expiry_interval |-> 17, server_reference |-> 28, reason_string |-> 31,
     user_properties |-> 38]
FieldsOf(fields) == {fields[i] : i \in 1..Len(fields)}
\* <Properties>::new(): every property absent
Properties_new(fields) == [f \in FieldsOf(fields) |-> NoneOpt]

\* the value of one property: a four byte integer, a string, or a string pair
Property_parse(f, input) ==
    IF f = "session_expiry_interval" THEN parse_u32(input)
    ELSE IF f = "user_properties"
    THEN LET k == parse_string(input) IN
         IF ~k.ok THEN k
         ELSE LET v == parse_string(k.rest) IN
              IF ~v.ok THEN v ELSE Ok(<< k.value, v.value >>, v.rest)
    ELSE parse_string(input)
Property_write(f, value) ==
    IF f = "session_expiry_interval" THEN write_u32(value)
    ELSE IF f = "user_properties" THEN write_string(value[1]) \o write_string(value[2])
    ELSE write_string(value)

\* the pairs (identifier, value) of a property block; a user property may
\* repeat and keeps its order, any other property appears at most once
RECURSIVE Properties_from(_, _, _)
Properties_from(block, fields, acc) ==
    IF block = << >> THEN Ok(acc, << >>)
    ELSE LET id == parse_variable_u32(block) IN
         IF ~id.ok THEN id
         ELSE IF ~\E f \in DOMAIN PropertyIdentifier : PropertyIdentifier[f] = id.value
         THEN Err("MalformedPacket")
         ELSE LET f == CHOOSE g \in DOMAIN PropertyIdentifier : PropertyIdentifier[g] = id.value
                  v == Property_parse(f, id.rest)
              IN
              IF f \notin FieldsOf(fields) THEN Err("PropertyNotAllowed")
              ELSE IF ~v.ok THEN v
              ELSE IF f = "user_properties"
              THEN Properties_from(v.rest, fields,
                        [acc EXCEPT ![f] = Some((IF @ = NoneOpt THEN << >> ELSE @[1])
                                                    \o << v.value >>)])
              ELSE IF acc[f] # NoneOpt THEN Err("DuplicateProperty")
              ELSE Properties_from(v.rest, fields, [acc EXCEPT ![f] = Some(v.value)])

\* <Properties>::parse: the length of the block, then the block
Properties_parse(fields, input) ==
    LET l == parse_variable_u32(input) IN
    IF ~l.ok THEN l
    ELSE IF Len(l.rest) < l.value THEN Err("Incomplete")
    ELSE on_slice(Properties_from(Take(l.rest, l.value), fields, Properties_new(fields)),
                  Drop(l.rest, l.value))

RECURSIVE write_user_properties(_)
write_user_properties(pairs) ==
    IF pairs = << >> THEN << >>
    ELSE write_variable_u32(PropertyIdentifier["user_properties"])
            \o Property_write("user_properties", Head(pairs))
            \o write_user_properties(Tail(pairs))
\* the bytes of the properties that are present, in the order of declaration
RECURSIVE Properties_body(_, _)
Properties_body(fields, props) ==
    IF fields = << >> THEN << >>
    ELSE LET f == Head(fields) IN
         (IF props[f] = NoneOpt THEN << >>
          ELSE IF f = "user_properties" THEN write_user_properties(props[f][1])
          ELSE write_variable_u32(PropertyIdentifier[f]) \o Property_write(f, props[f][1]))
            \o Properties_body(Tail(fields), props)
\* <Properties>::write: the length of the block, then the block
Properties_write(fields, props) ==
    write_variable_u32(Len(Properties_body(fields, props))) \o Properties_body(fields, props)
Properties_binary_size(fields, props) ==
    variable_u32_binary_size(Len(Properties_body(fields, props)))
        + Len(Properties_body(fields, props))

\* PacketIdentifier: a two byte integer
PacketIdentifier_parse(input) == parse_u16(input)
PacketIdentifier_write(id) == write_u16(id)
PacketIdentifier_binary_size(id) == Len(PacketIdentifier_write(id))

MDisconnect(reason_code, properties) ==
    [kind |-> "Disconnect", reason_code |-> reason_code, properties |-> properties]
MPubrel(packet_identifier, reason, properties) ==
    [kind |-> "Pubrel", packet_identifier |-> packet_identifier, reason |-> reason,
     properties |-> properties]

\* variant: a DISCONNECT without a reason code is not accepted
disconnect_reason_code_required(input) == ReasonCode_parse(DisconnectReasonCode, input)
\* MDisconnect::parse: `let reason_code = if input.len() >= 1 { .. } else { .. }`
disconnect_reason_code(input) ==
    IF Len(input) >= 1 THEN ReasonCode_parse(DisconnectReasonCode, input)
    ELSE Ok("NormalDisconnection", input)
\* MDisconnect::parse: `let properties = if input.len() >= 2 { .. } else { .. }`
disconnect_properties(input) ==
    IF Len(input) >= 2 THEN Properties_parse(DisconnectProperties, input)
    ELSE Ok(Properties_new(DisconnectProperties), input)
\* MDisconnect::parse: `Ok(MDisconnect { reason_code, properties })`
MDisconnect_of(reason_code, properties) ==
    IF ~properties.ok THEN properties
    ELSE Ok(MDisconnect(reason_code, properties.value), properties.rest)
MDisconnect_parse(input) ==
    LET reason_code == disconnect_reason_code(input) IN
    IF ~reason_code.ok THEN reason_code
    ELSE MDisconnect_of(reason_code.value, disconnect_properties(reason_code.rest))
MDisconnect_binary_size(p) ==
    ReasonCode_binary_size(DisconnectReasonCode, p.reason_code)
        + Properties_binary_size(DisconnectProperties, p.properties)
MDisconnect_write(p) ==
    ReasonCode_write(DisconnectReasonCode, p.reason_code)
        \o Properties_write(DisconnectProperties, p.properties)

\* MPubrel::parse: `Ok(Self { packet_identifier, reason, properties })`
MPubrel_of(packet_identifier, reason, properties) ==
    IF ~properties.ok THEN properties
    ELSE Ok(MPubrel(packet_identifier, reason, properties.value), properties.rest)
\* MPubrel::parse: the packet identifier, then either nothing or a reason
\* code followed by properties
MPubrel_parse(input) ==
    LET packet_identifier == PacketIdentifier_parse(input) IN
    IF ~packet_identifier.ok THEN packet_identifier
    ELSE IF packet_identifier.rest = << >>
    THEN Ok(MPubrel(packet_identifier.value, "Success", Properties_new(PubrelProperties)), << >>)
    ELSE LET reason == ReasonCode_parse(PubrelReasonCode, packet_identifier.rest) IN
         IF ~reason.ok THEN reason
         ELSE MPubrel_of(packet_identifier.value, reason.value,
                         Properties_parse(PubrelProperties, reason.rest))
MPubrel_binary_size(p) ==
    PacketIdentifier_binary_size(p.packet_identifier)
        + ReasonCode_binary_size(PubrelReasonCode, p.reason)
        + Properties_binary_size(PubrelProperties, p.properties)
MPubrel_write(p) ==
    PacketIdentifier_write(p.packet_identifier)
        \o ReasonCode_write(PubrelReasonCode, p.reason)
        \o Properties_write(PubrelProperties, p.properties)

\* first byte of the packet: type DISCONNECT (14) with flags 0, type PUBREL
\* (6) with flags 0b0010
DisconnectHeader == 224
PubrelHeader == 98

\* MqttPacket::parse: the fixed header, then the packet's parser on the
\* Remaining Length bytes that follow; `rest` is what the packet's parser
\* left of them, followed by the bytes after the packet
MqttPacket_parse(input) ==
    IF input = << >> THEN Err("Incomplete")
    ELSE IF input[1] \notin {DisconnectHeader, PubrelHeader} THEN Err("InvalidFixedHeader")
    ELSE LET l == parse_variable_u32(Drop(input, 1)) IN
         IF ~l.ok THEN l
         ELSE IF Len(l.rest) < l.value THEN Err("Incomplete")
         ELSE on_slice(IF input[1] = DisconnectHeader
                       THEN MDisconnect_parse(Take(l.rest, l.value))
                       ELSE MPubrel_parse(Take(l.rest, l.value)),
                       Drop(l.rest, l.value))
\* MqttPacket::write: the first byte, binary_size as Remaining Length, the body
MqttPacket_write(p) ==
    IF p.kind = "Disconnect"
    THEN << DisconnectHeader >> \o write_variable_u32(MDisconnect_binary_size(p))
            \o MDisconnect_write(p)
    ELSE << PubrelHeader >> \o write_variable_u32(MPubrel_binary_size(p)) \o MPubrel_write(p)

\* ------------------------------------------------------------ codec inputs
LongString == [i \in 1..LongLen |-> 102]
ReasonStrings == {NoneOpt, Some(<< >>), Some(<< 102, 111, 111 >>), Some(LongString)}
UserPropertyLists ==
    {NoneOpt, Some(<< << << 102 >>, << 104, 106 >> >> >>),
     Some(<< << << 102 >>, << 104 >> >>, << << 102 >>, << >> >> >>)}
DisconnectPropertySets ==
    [session_expiry_interval : {NoneOpt, Some(123), Some(16777217)},
     reason_string : ReasonStrings,
     user_properties : UserPropertyLists,
     server_reference : {NoneOpt, Some(<< 98, 97, 114 >>)}]
PubrelPropertySets == [reason_string : ReasonStrings, user_properties : UserPropertyLists]
PacketIdentifiers == {1, 13, 258, 65535}
\* the well-formed packets
CodecPackets ==
    {MDisconnect(rc, props) : rc \in DOMAIN DisconnectReasonCode, props \in DisconnectPropertySets}
        \cup {MPubrel(id, rc, props) :
                id \in PacketIdentifiers, rc \in DOMAIN PubrelReasonCode,
                props \in PubrelPropertySets}

\* the bytes a packet body is made of: 0, small lengths, the identifier of
\* the reason string, a legal reason code of either packet
BodyBytes == {0, 1, 3, 31, 142, 146}
\* a packet identifier that may precede them
BodyPrefixes == {<< >>, << 0, 1 >>}

\* ----------------------------------------------------------- codec actions
\* a packet is written
WritePacket ==
    /\ cPc = "idle"
    /\ \E p \in CodecPackets :
            /\ cPacket' = p
            /\ cBytes' = MqttPacket_write(p)
    /\ cPc' = "written"
    /\ UNCHANGED << brokerVars, trie, matchVars, rcuVars, budget, connectorVars, acceptVars, cParsed, cOut, mutexVars >>

\* the bytes that were written are parsed
ParseWritten ==
    /\ cPc = "written"
    /\ cParsed' = MqttPacket_parse(cBytes)
    /\ cPc' = "read_back"
    /\ UNCHANGED << brokerVars, trie, matchVars, rcuVars, budget, connectorVars, acceptVars, cPacket, cBytes,
                    cOut, mutexVars >>

\* bytes arrive and are parsed
ParseBytes ==
    /\ cPc = "idle"
    /\ \E h \in {DisconnectHeader, PubrelHeader}, n \in 0..MaxBody, prefix \in BodyPrefixes,
          cut \in {0, 1} :
            \E tail \in [1..n -> BodyBytes] :
                \* a first byte, a Remaining Length that covers the body or all
                \* but its last byte, and the body
                LET b == << h, Len(prefix \o tail) - cut >> \o prefix \o tail IN
                /\ Len(prefix \o tail) >= cut
                /\ cBytes' = b
                /\ cParsed' = MqttPacket_parse(b)
    /\ cPc' = "parsed"
    /\ UNCHANGED << brokerVars, trie, matchVars, rcuVars, budget, connectorVars, acceptVars, cPacket, cOut, mutexVars >>

\* the packet that was parsed is written
WriteParsed ==
    /\ cPc = "parsed"
    /\ cParsed.ok
    /\ cOut' = MqttPacket_write(cParsed.value)
    /\ cPc' = "rewritten"
    /\ UNCHANGED << brokerVars, trie, matchVars, rcuVars, budget, connectorVars, acceptVars, cPacket, cBytes,
                    cParsed, mutexVars >>

CodecInit ==
    /\ BrokerInit
    /\ budget = 0
    /\ trie = SubscriptionTopic_default
    /\ MatchIdle
    /\ RcuIdle
    /\ CodecIdle
    /\ ConnectorIdle
    /\ AcceptIdle
    /\ WriterIdle

CodecNext ==
    \/ WritePacket
    \/ ParseWritten
    \/ ParseBytes
    \/ WriteParsed

CodecSpec == CodecInit /\ [][CodecNext]_vars

\* ================================================================ connector
\* MqttClientConnector::connect: the client sends its CONNECT, reads one
\* packet and decides on it.
CleanStart == {"No", "Yes"}
\* CleanStart::as_bool
as_bool(clean_start) == clean_start = "Yes"

PotentiallyServerProvided == [variant |-> "PotentiallyServerProvided"]
MinimalRequired(id) == [variant |-> "MinimalRequired", id |-> id]
PotentiallyAccepted(id) == [variant |-> "PotentiallyAccepted", id |-> id]
ProposedClientIdentifier ==
    {PotentiallyServerProvided, MinimalRequired("a"), PotentiallyAccepted("b-1")}

\* longest MqttString: its length is sent in two bytes
MqttString_MAX_LEN == 65535
MqttString_try_from(s) == IF Len(s) > MqttString_MAX_LEN THEN Err("MqttStringError") ELSE Ok(s, << >>)

\* what the server answers: nothing (the stream ends), bytes that do not
\* decode, or a packet
Connack(reason_code, present, assigned_client_identifier) ==
    [kind |-> "Connack", reason_code |-> reason_code, session_present |-> present,
     assigned_client_identifier |-> assigned_client_identifier]
Connacks ==
    {Connack(rc, sp, aci) : rc \in {"Success", "NotAuthorized"}, sp \in BOOLEAN,
                            aci \in {NoneOpt, Some("srv")}}
Replies ==
    {[kind |-> "closed"], [kind |-> "undecodable"], [kind |-> "Auth"], [kind |-> "Publish"]}
        \cup Connacks
ConnectRequests ==
    [client_identifier : ProposedClientIdentifier, clean_start : CleanStart,
     authentication_data : BOOLEAN, send : {"ok", "error"}, reply : Replies]

ServerProtocolError(reason) == [ok |-> FALSE, error |-> "ServerProtocolError", reason |-> reason]
ConnectError(error) == [ok |-> FALSE, error |-> error]
\* todo!(): the task panics
Todo == [ok |-> FALSE, error |-> "panic"]
MqttClient(present, client_identifier) ==
    [ok |-> TRUE, session_present |-> present, client_identifier |-> client_identifier]

\* variant: the session_present flag of the CONNACK is not looked at
clean_start_ignored(present, clean_start) == FALSE
\* `connack.session_present && self.clean_start == CleanStart::Yes`
clean_start_violated(present, clean_start) == present /\ clean_start = "Yes"

\* variant: an assigned identifier is taken whatever the client proposed
client_identifier_assigned_first(proposed, assigned) ==
    IF assigned # NoneOpt
    THEN LET s == MqttString_try_from(assigned[1]) IN
         IF s.ok THEN Ok(s.value, << >>) ELSE ServerProtocolError("MQTT-1.5.4")
    ELSE IF proposed = PotentiallyServerProvided THEN ServerProtocolError("MQTT-3.2.2.3.7")
    ELSE Ok(proposed.id, << >>)
\* the client identifier of the MqttClient, from what was proposed and what
\* the CONNACK assigns
client_identifier_of(proposed, assigned) ==
    IF assigned # NoneOpt
    THEN IF proposed = PotentiallyServerProvided
         THEN LET s == MqttString_try_from(assigned[1]) IN
              IF s.ok THEN Ok(s.value, << >>) ELSE ServerProtocolError("MQTT-1.5.4")
         ELSE ServerProtocolError("MQTT-3.2.2.3.7")
    ELSE IF proposed = PotentiallyServerProvided THEN ServerProtocolError("MQTT-3.2.2.3.7")
    ELSE Ok(proposed.id, << >>)

\* MqttClientConnector::connect
connect(request) ==
    LET reply == request.reply IN
    IF request.send = "error" THEN ConnectError("Send")
    ELSE IF reply.kind = "closed" THEN ConnectError("TransportUnexpectedlyClosed")
    ELSE IF reply.kind = "undecodable" THEN ConnectError("Receive")
    ELSE IF reply.kind = "Auth"
    THEN IF request.authentication_data THEN Todo ELSE ServerProtocolError("MQTT-4.12.0-6")
    ELSE IF reply.kind # "Connack" THEN ServerProtocolError("MQTT-3.1.4-5")
    ELSE IF reply.reason_code # "Success" THEN Todo
    ELSE IF clean_start_violated(reply.session_present, request.clean_start)
    THEN ServerProtocolError("MQTT-3.2.2-2")
    ELSE LET client_identifier ==
                client_identifier_of(request.client_identifier, reply.assigned_client_identifier)
         IN IF client_identifier.ok
            THEN MqttClient(reply.session_present, client_identifier.value)
            ELSE client_identifier

\* one connector is built and connect is called on it
Connecting ==
    /\ kPc = "idle"
    /\ \E request \in ConnectRequests :
            /\ kRequest' = request
            /\ kResult' = connect(request)
    /\ kPc' = "returned"
    /\ UNCHANGED << brokerVars, trie, matchVars, rcuVars, budget, codecVars, acceptVars, mutexVars >>

ConnectorInit ==
    /\ BrokerInit
    /\ budget = 0
    /\ trie = SubscriptionTopic_default
    /\ MatchIdle
    /\ RcuIdle
    /\ CodecIdle
    /\ ConnectorIdle
    /\ AcceptIdle
    /\ WriterIdle

ConnectorNext == Connecting

ConnectorSpec == ConnectorInit /\ [][ConnectorNext]_vars

\* ============================================================== accept loop
\* accept_new_clients step by step: accept() returns a connection, then
\* accept_client reads its first packet before the loop accepts again.
FirstPackets ==
    {[type |-> "CONNECT", client_id |-> id] : id \in ClientIds}
        \cup {[type |-> "PINGREQ"], [type |-> "ERROR"]}

\* a client opens a connection; connections are numbered in the order they arrive
Arrive(c) ==
    /\ c \notin arrived
    /\ c = 1 \/ (c - 1) \in arrived
    /\ arrived' = arrived \cup {c}
    /\ UNCHANGED << brokerVars, trie, matchVars, rcuVars, budget, codecVars, connectorVars,
                    firstPacket, accepted, listening, mutexVars >>

\* a client sends its first packet, or closes without one
SendFirst(c, packet) ==
    /\ c \in arrived
    /\ firstPacket[c] = NoneOpt
    /\ firstPacket' = [firstPacket EXCEPT ![c] = Some(packet)]
    /\ UNCHANGED << brokerVars, trie, matchVars, rcuVars, budget, codecVars, connectorVars,
                    arrived, accepted, listening, mutexVars >>

\* the loop is at `self.client_source.accept().await`: accept_client has
\* returned for every connection accepted so far
AtAccept == listening /\ \A c \in accepted : recv[c] # << >>

\* accept() returns the connection that has waited longest
Accept ==
    /\ AtAccept
    /\ arrived \ accepted # {}
    /\ accepted' = accepted \cup
            {CHOOSE c \in arrived \ accepted : \A d \in arrived \ accepted : c <= d}
    /\ UNCHANGED << brokerVars, trie, matchVars, rcuVars, budget, codecVars, connectorVars,
                    arrived, firstPacket, listening, mutexVars >>

\* accept() returns an error: `?` ends accept_new_clients
ListenerFails ==
    /\ AtAccept
    /\ listening' = FALSE
    /\ UNCHANGED << brokerVars, trie, matchVars, rcuVars, budget, codecVars, connectorVars,
                    arrived, firstPacket, accepted, mutexVars >>

\* accept_client: `read_one_packet(&mut client).await?`, then connect_client
\* for a CONNECT and shutdown for any other packet
ReadFirst(c) ==
    /\ listening
    /\ c \in accepted
    /\ recv[c] = << >>
    /\ firstPacket[c] # NoneOpt
    /\ IF firstPacket[c][1].type = "CONNECT"
       THEN \E ok \in BOOLEAN : AcceptConnect(c, firstPacket[c][1].client_id, FALSE, NoneOpt, ok, 0)
       ELSE AcceptReject(c, firstPacket[c][1].type)

AcceptInit ==
    /\ BrokerInit
    /\ budget = 0
    /\ trie = SubscriptionTopic_default
    /\ MatchIdle
    /\ RcuIdle
    /\ CodecIdle
    /\ ConnectorIdle
    /\ AcceptIdle
    /\ WriterIdle

AcceptNext ==
    \/ \E c \in Conns : Arrive(c)
    \/ \E c \in Conns, packet \in FirstPackets : SendFirst(c, packet)
    \/ Accept
    \/ ListenerFails
    \/ \E c \in Conns : ReadFirst(c)
    \/ \E c \in Conns : ClientDrop(c)
    \/ \E c \in Conns : ReadError(c)
    \/ \E c \in Conns : SendLoopExit(c)

AcceptSpec == AcceptInit /\ [][AcceptNext]_vars

\* the server's own task runs whenever it can make a step; clients owe nothing
AcceptFairSpec ==
    /\ AcceptSpec
    /\ WF_vars(Accept)
    /\ \A c \in Conns : WF_vars(ReadFirst(c))

\* ============================================================== match walk
\* The trie operations applied to one subscription and one publish: a filter
\* string and a topic string are drawn, the filter is subscribed through
\* `subscribe`, the topic is matched as route_message matches it.
FilterLevelStrings == {<< >>, << "a" >>, << "+" >>, << "#" >>, << "$", "a" >>}
TopicLevelStrings == {<< >>, << "a" >>, << "a", "a" >>, << "$", "a" >>}
LevelSeqs(S) == UNION {[1..n -> S] : n \in 1..MaxLevels}
FilterStrings == {join(ls) : ls \in LevelSeqs(FilterLevelStrings)}
TopicStrings == {join(ls) : ls \in LevelSeqs(TopicLevelStrings)}

MatchInit ==
    /\ BrokerInit
    /\ trie = SubscriptionTopic_default
    /\ mFilter \in FilterStrings
    /\ mTopic \in TopicStrings
    /\ mMatches = << >>
    /\ mPc = "init"
    /\ budget = 0
    /\ CodecIdle
    /\ ConnectorIdle
    /\ AcceptIdle
    /\ WriterIdle
    /\ RcuIdle

MatchSubscribe ==
    /\ mPc = "init"
    /\ trie' = subscribe(trie, "c1", 1, << [topic |-> mFilter, qos |-> AtLeastOnce] >>)
    /\ mPc' = "subscribed"
    /\ UNCHANGED << brokerVars, rcuVars, budget, codecVars, connectorVars, acceptVars, mFilter, mTopic, mMatches, mutexVars >>

MatchRoute ==
    /\ mPc = "subscribed"
    /\ mMatches' = matches_of(trie, mTopic)
    /\ mPc' = "routed"
    /\ UNCHANGED << brokerVars, rcuVars, budget, codecVars, connectorVars, acceptVars, trie, mFilter, mTopic, mutexVars >>

MatchNext == MatchSubscribe \/ MatchRoute

MatchSpec == MatchInit /\ [][MatchNext]_vars

\* the filter and the topic of the walk, as levels
F == TopicFilter_parse_from(mFilter)
T == TopicName_parse_from(mTopic)
Routed == mPc = "routed"
Matched == mMatches # << >>
BeginsWithDollar(str) == str # << >> /\ str[1] = "$"
AllNamed(f, k) == \A i \in 1..k : f[i].kind = "Named"

\* ------------------------------------------------------------------ C7
IsPrefixHash == Len(F) >= 1 /\ F[Len(F)] = MultiWildcard /\ AllNamed(F, Len(F) - 1)
BeginsWithPrefix(k) == Len(T) >= k /\ \A i \in 1..k : T[i] = F[i].name

\* C7: a filter P/# with P made of k named levels matches a topic that does
\* not begin with '$' exactly when the topic's levels begin with P (the topic
\* P itself included).
C7_MultiLevelWildcard ==
    (Routed /\ IsPrefixHash /\ ~BeginsWithDollar(mTopic))
        => (Matched <=> BeginsWithPrefix(Len(F) - 1))

\* "a/#" is matched against the topic "a", its own prefix
C7_Witness ==
    /\ Routed
    /\ mFilter = << "a", "/", "#" >>
    /\ mTopic = << "a" >>
    /\ Len(mMatches) = 1

\* ------------------------------------------------------------------ C8
NoMultiWildcard == \A i \in 1..Len(F) : F[i] # MultiWildcard
LevelWise ==
    /\ Len(T) = Len(F)
    /\ \A i \in 1..Len(F) : F[i] = SingleWildcard \/ F[i] = Named(T[i])

\* C8: a filter of named and '+' levels only matches a topic exactly when
\* both have the same number of levels and each filter level is '+' or
\* equals the topic level; empty levels are levels.
C8_SingleLevelWildcard ==
    (Routed /\ NoMultiWildcard) => (Matched <=> LevelWise)

\* "+/+" is matched against "/a", whose first level is empty
C8_Witness ==
    /\ Routed
    /\ mFilter = << "+", "/", "+" >>
    /\ mTopic = << "/", "a" >>
    /\ Len(mMatches) = 1

\* ------------------------------------------------------------------ C9
IsPrefixPlusHash ==
    /\ Len(F) >= 2
    /\ F[Len(F)] = MultiWildcard
    /\ F[Len(F) - 1] = SingleWildcard
    /\ AllNamed(F, Len(F) - 2)

\* C9: a '+' consumes one existing topic level, so a filter P/+/# with P made
\* of k named levels matches only topics of at least k+1 levels.
C9_PlusConsumesLevel ==
    (Routed /\ IsPrefixPlusHash /\ Matched) => Len(T) >= Len(F) - 1

\* ------------------------------------------------------------------ C10
\* C10: a topic whose first level begins with '$' is matched only by filters
\* whose first level is a named level beginning with '$'.
C10_DollarTopics ==
    (Routed /\ BeginsWithDollar(mTopic) /\ Matched)
        => (F[1].kind = "Named" /\ BeginsWithDollar(F[1].name))

\* ================================================================== broker
Last(seq) == seq[Len(seq)]
Range(seq) == {seq[i] : i \in 1..Len(seq)}
Connected(c) == read_loop[c] # "unborn"
\* connection c reads one more packet in this step, of the given type
Reads(c, type) == Len(recv'[c]) = Len(recv[c]) + 1 /\ Last(recv'[c]).type = type

\* ------------------------------------------------------------------ C1
C1_Step(c) ==
    (Reads(c, "CONNECT") /\ written'[c] # << >>)
        => /\ Len(written'[c]) = 1
           /\ written'[c][1].type = "CONNACK"
           /\ written'[c][1].session_present =
                (contains_key(clients, recv'[c][1].client_id) /\ ~recv'[c][1].clean_session)

\* C1: the CONNACK answering a CONNECT carries session_present = (the session
\* table holds an entry for the client id when the CONNECT is handled) and
\* (clean start was not requested); with clean start it is false.
C1_SessionPresent == [][\A c \in Conns : C1_Step(c)]_vars

\* a CONNECT without clean start was answered session_present = true, and a
\* CONNECT for the same client id came before it
C1_Witness ==
    \E a, b \in Conns :
        /\ a < b
        /\ Connected(a) /\ Connected(b)
        /\ client_id[a] = client_id[b]
        /\ ~recv[b][1].clean_session
        /\ written[b][1].session_present

\* ------------------------------------------------------------------ C2
LoopsEnded(a) == read_loop[a] # "running" /\ send_loop[a] # "running"
Supersedes(b) == \E a \in superseded : a < b /\ client_id[a] = client_id[b] /\ Connected(b)

\* C2: once a connection has been superseded by a CONNECT for its client id,
\* its read loop and its write loop eventually terminate, and the CONNACK of a
\* superseding connection without clean start reports session_present = true.
C2_Takeover ==
    /\ \A a \in Conns : (a \in superseded) ~> LoopsEnded(a)
    /\ [](\A b \in Conns : (Supersedes(b) /\ ~recv[b][1].clean_session)
                                => written[b][1].session_present)

\* ------------------------------------------------------------------ C3
WillRoutedTo(will, subs) ==
    \A i \in 1..Len(subs) :
        send_loop[subs[i].sender] = "running" => will \in Range(sent'[subs[i].sender])
C3_Step(c) ==
    (read_loop[c] = "running" /\ read_loop'[c] # "running" /\ last_will'[c] # NoneOpt)
        => WillRoutedTo(last_will'[c][1], matches_of(trie, last_will'[c][1].topic))

\* C3: when a read loop ends with its last-will still set, the will is routed
\* through the trie: it is enqueued for every subscription matching its topic.
C3_WillRouted == [][\A c \in Conns : C3_Step(c)]_vars

\* ------------------------------------------------------------------ C4
WillOf(c) == MqttMessage_from_last_will(recv[c][1].will[1], client_id[c])
HadWill(c) == recv[c][1].will # NoneOpt
GracefullyDisconnected(c) == Connected(c) /\ Last(recv[c]).type = "DISCONNECT"

\* C4: after a DISCONNECT has been read from a client, its last-will is
\* cleared, its read loop has ended, and the will it connected with is in no
\* subscriber's queue.
C4_DisconnectSuppressesWill ==
    \A c \in Conns : GracefullyDisconnected(c) =>
        /\ last_will[c] = NoneOpt
        /\ read_loop[c] = "done"
        /\ HadWill(c) => \A s \in Conns : WillOf(c) \notin Range(sent[s])

\* a client with a will has disconnected gracefully while another connection
\* holds a subscription matching the will topic
C4_Witness ==
    \E c, s \in Conns :
        /\ GracefullyDisconnected(c)
        /\ HadWill(c)
        /\ s # c
        /\ send_loop[s] = "running"
        /\ \E i \in 1..Len(matches_of(trie, WillOf(c).topic)) :
                matches_of(trie, WillOf(c).topic)[i].sender = s

\* ------------------------------------------------------------------ C5
IsSubackFor(packet, reqs) ==
    /\ packet.type = "SUBACK"
    /\ Len(packet.reason_codes) = Len(reqs)
    /\ \A i \in 1..Len(reqs) : packet.reason_codes[i] = reqs[i].qos
C5_Step(c) ==
    Reads(c, "SUBSCRIBE") =>
        /\ Len(written'[c]) = Len(written[c]) + 1
        /\ IsSubackFor(Last(written'[c]), Last(recv'[c]).subscriptions)

\* C5: handling a SUBSCRIBE ends with a SUBACK written to the subscriber that
\* carries one reason code per requested filter, in request order.
C5_Suback == [][\A c \in Conns : C5_Step(c)]_vars

\* ------------------------------------------------------------------ C6
SubscribedAt(t, node, c) ==
    node \in DOMAIN t /\ \E i \in 1..Len(t[node]) : t[node][i].sender = c

\* C6: after an UNSUBSCRIBE for filter f has been handled for a client, the
\* client has no subscription at f's node of the trie, a publish matching f
\* finds no subscription of that connection, and an UNSUBACK has been written.
C6_Unsubscribe ==
    \A c \in Conns :
        (Connected(c) /\ Last(recv[c]).type = "UNSUBSCRIBE") =>
            /\ ~SubscribedAt(trie, TopicFilter_parse_from(Last(recv[c]).topic), c)
            /\ \E i \in 1..Len(written[c]) : written[c][i].type = "UNSUBACK"

\* ------------------------------------------------------------------ C11
CountOf(list, id) == Cardinality({i \in 1..Len(list) : list[i].client_id = id})

\* C11: in every reachable trie, the subscriber list of each node holds at
\* most one entry per client id (a repeated SUBSCRIBE replaces the entry).
C11_OneEntryPerClient ==
    \A node \in DOMAIN trie : \A id \in ClientIds : CountOf(trie[node], id) <= 1

\* ------------------------------------------------------------------ C12
Prefixes(f) == {SubSeq(f, 1, k) : k \in 0..Len(f)}
ListAt(t, node) == IF node \in DOMAIN t THEN t[node] ELSE << >>
\* caller w applies its next change to its clone in this step
Adds(w) ==
    /\ writers[w].pc = "add"
    /\ writers'[w].pc = "add"
    /\ writers'[w].i = writers[w].i + 1
Merged(old, new, f, sub) ==
    /\ DOMAIN new = DOMAIN old \cup Prefixes(f)
    /\ new[f] = Append(ListAt(old, f), sub)
    /\ \A node \in DOMAIN new \ {f} : new[node] = ListAt(old, node)
C12_Step(w) ==
    Adds(w) =>
        LET req == writers[w].reqs[writers[w].i] IN
        Merged(writers[w].subs, writers'[w].subs, TopicFilter_parse_from(req.topic),
               ClientSubscription(RcuClientId(w), w, req.qos))

\* C12: add_subscription(filter, sub) creates the missing nodes of the
\* filter's path, appends sub to the list of the node the whole filter leads
\* to, and leaves the list of every other node and every other child as it was.
C12_AddSubscriptionMerges == [][\A w \in Conns : C12_Step(w)]_vars

\* a clone that held a subscription of another caller at "w" has received
\* "w/+" below that node, and the older subscription is still in place
C12_Witness ==
    \E w \in Conns :
        /\ writers[w].pc = "add"
        /\ writers[w].i = 2
        /\ writers[w].reqs[1].topic = TopicWPlus
        /\ Len(ListAt(writers[w].subs, TopicFilter_parse_from(TopicWPlus))) = 1
        /\ \E e \in Range(ListAt(writers[w].subs, TopicFilter_parse_from(TopicW))) : e.sender # w

\* ------------------------------------------------------------------ C13
EntriesOf(matches, s) == Cardinality({i \in 1..Len(matches) : matches[i].sender = s})
Copies(message, k) == [i \in 1..k |-> message]
PublishedBy(c) ==
    LET pkt == Last(recv'[c]) IN
    MqttMessage_new(client_id[c], pkt.payload, pkt.topic_name, pkt.retain, pkt.qos)
\* the queue of s grows by k copies of the message in this step
Enqueues(s, message, k) == sent'[s] = sent[s] \o Copies(message, k)
C13_Step(c) ==
    Reads(c, "PUBLISH") =>
        \A s \in Conns :
            Enqueues(s, PublishedBy(c),
                     EntriesOf(matches_of(trie, PublishedBy(c).topic), s))

\* C13: route_message enqueues one copy of the message per matching
\* subscription entry of the snapshot: a client with k matching entries gets
\* k copies, a client with none gets none.
C13_OneCopyPerEntry == [][\A c \in Conns : C13_Step(c)]_vars

C13_LiveStep(c) ==
    Reads(c, "PUBLISH") =>
        \A s \in Conns :
            Enqueues(s, PublishedBy(c),
                     IF send_loop[s] = "running"
                     THEN EntriesOf(matches_of(trie, PublishedBy(c).topic), s)
                     ELSE 0)

\* C13 (amended): route_message enqueues one copy of the message per matching
\* entry whose channel still has its receiver, k copies for a client with k
\* matching entries and no deduplication; for an entry of a connection whose
\* write loop has ended the send fails and nothing is enqueued.
C13_OneCopyPerLiveEntry == [][\A c \in Conns : C13_LiveStep(c)]_vars

\* one PUBLISH has been read, and a connection that published nothing holds
\* two copies of it in its queue
C13_Witness ==
    \E c, s \in Conns :
        /\ c # s
        /\ Len(recv[c]) = 2
        /\ Last(recv[c]).type = "PUBLISH"
        /\ \A i \in 1..Len(recv[s]) : recv[s][i].type # "PUBLISH"
        /\ Len(sent[s]) = 2
        /\ sent[s][1] = sent[s][2]

\* ------------------------------------------------------------------ C14
\* the entries caller w has in table t, over all nodes
TableEntries(t, w) ==
    Cardinality({e \in UNION {{<< node, i >> : i \in 1..Len(t[node])} : node \in DOMAIN t} :
                    t[e[1]][e[2]].sender = w})
\* filter f, subscribed alone, is matched by the topic
FilterMatches(f, topic) ==
    matches_of(add_subscription(SubscriptionTopic_default, Root, TopicFilter_parse_from(f),
                                ClientSubscription("c1", 1, AtLeastOnce)), topic) # << >>
MatchingRequests(w, topic) ==
    Cardinality({i \in 1..Len(writers[w].reqs) : FilterMatches(writers[w].reqs[i].topic, topic)})
\* table t holds all the filters of w's SUBSCRIBE or none of them
AllOrNone(t, w) == TableEntries(t, w) \in {0, Len(writers[w].reqs)}

\* C14: the recipients route_message computes are those of one published
\* table, and that table holds, of every concurrent SUBSCRIBE, either all of
\* its filters or none: the reader never sees a part of one subscribe.
C14_SnapshotIsolation ==
    reader.pc = "matched" =>
        \E k \in 1..Len(history) :
            /\ reader.matches = matches_of(history[k], reader.topic)
            /\ \A w \in Conns :
                /\ AllOrNone(history[k], w)
                /\ EntriesOf(reader.matches, w) \in {0, MatchingRequests(w, reader.topic)}

\* route_message has matched while a subscribe with two matching filters has
\* added one of them to its clone; it found the other caller's subscription
\* and none of the unfinished one
C14_Witness ==
    \E w \in Conns :
        /\ reader.pc = "matched"
        /\ reader.matches # << >>
        /\ writers[w].pc = "add"
        /\ writers[w].i = 2
        /\ Len(writers[w].reqs) = 2
        /\ MatchingRequests(w, reader.topic) = 2
        /\ EntriesOf(reader.matches, w) = 0

\* ------------------------------------------------------------------ C15
Requested(w, node) ==
    Cardinality({i \in 1..Len(writers[w].reqs) :
                    TopicFilter_parse_from(writers[w].reqs[i].topic) = node})
RcuNodes == {TopicFilter_parse_from(f) : f \in RcuFilters}

\* C15: under concurrent subscribe calls, retries included, the published
\* trie holds every requested (filter, client) subscription of the completed
\* calls exactly once per request, and nothing of a call that has not completed.
C15_NoLostSubscription ==
    \A w \in Conns : \A node \in DOMAIN trie \cup RcuNodes :
        EntriesOf(ListAt(trie, node), w) =
            IF writers[w].pc = "done" THEN Requested(w, node) ELSE 0

\* both calls have completed and one of them had to run its closure again
C15_Witness ==
    /\ \A w \in Conns : writers[w].pc = "done"
    /\ \E w \in Conns : writers[w].runs >= 2

\* ------------------------------------------------------------------ C16
IsPublish(pkt) == pkt.type = "PUBLISH"
\* the messages connection p has published, in the order its PUBLISH packets were read
Pubs(p) ==
    LET pkts == SelectSeq(recv[p], IsPublish) IN
    [i \in 1..Len(pkts) |->
        MqttMessage_new(client_id[p], pkts[i].payload, pkts[i].topic_name,
                        pkts[i].retain, pkts[i].qos)]
\* the elements of q authored by id, in order
RECURSIVE FromAuthor(_, _)
FromAuthor(q, id) ==
    IF q = << >> THEN << >>
    ELSE IF Head(q).author = id THEN << Head(q) >> \o FromAuthor(Tail(q), id)
    ELSE FromAuthor(Tail(q), id)
RECURSIVE NotFromAuthor(_, _)
NotFromAuthor(q, id) ==
    IF q = << >> THEN << >>
    ELSE IF Head(q).author # id THEN << Head(q) >> \o NotFromAuthor(Tail(q), id)
    ELSE NotFromAuthor(Tail(q), id)
\* q is pubs with every element kept zero or more times, the order unchanged
RECURSIVE InOrderOf(_, _)
InOrderOf(q, pubs) ==
    IF q = << >> THEN TRUE
    ELSE IF pubs = << >> THEN FALSE
    ELSE IF Head(q) = Head(pubs) THEN InOrderOf(Tail(q), pubs)
    ELSE InOrderOf(q, Tail(pubs))
OnlyConnectionOfItsClient(p) == \A q \in Conns \ {p} : client_id[q] # client_id[p]
\* how many of the dequeued messages the write loop of s has dealt with
Handled(s) == IF send_loop[s] = "panicked" THEN taken[s] - 1 ELSE taken[s]
WrittenPublishes(s) == SelectSeq(written[s], IsPublish)
ToWrite(s) ==
    LET q == NotFromAuthor(SubSeq(sent[s], 1, Handled(s)), client_id[s]) IN
    [i \in 1..Len(q) |-> MPublish(q[i])]

\* C16: the messages of one publisher are enqueued for a subscriber in the
\* order the publisher sent them, and the subscriber's write loop writes the
\* queue in order: m1 published before m2 is enqueued and written before m2.
C16_PublisherOrder ==
    \A s \in Conns : Connected(s) =>
        /\ WrittenPublishes(s) = ToWrite(s)
        /\ \A p \in Conns : (Connected(p) /\ OnlyConnectionOfItsClient(p)) =>
                InOrderOf(FromAuthor(sent[s], client_id[p]), Pubs(p))

\* a publisher has sent two different messages, both matched the
\* subscription of another connection, and both have been written to it
C16_Witness ==
    \E s, p \in Conns :
        /\ s # p
        /\ Connected(s) /\ Connected(p)
        /\ client_id[s] # client_id[p]
        /\ Len(Pubs(p)) = 2
        /\ Pubs(p)[1] # Pubs(p)[2]
        /\ sent[s] = Pubs(p)
        /\ WrittenPublishes(s) = << MPublish(Pubs(p)[1]), MPublish(Pubs(p)[2]) >>

\* ------------------------------------------------------------------ C17
\* the write loop of c takes one message from its channel in this step
Dequeues(c) == taken'[c] = taken[c] + 1
Dequeued(c) == sent[c][taken'[c]]
\* a PUBLISH is added to what has been written to c in this step
GainsPublish(c) ==
    /\ Len(written'[c]) = Len(written[c]) + 1
    /\ IsPublish(Last(written'[c]))
C17_Step(c) ==
    /\ GainsPublish(c) => (Dequeues(c) /\ Dequeued(c).author # client_id[c])
    /\ Dequeues(c) =>
        IF Dequeued(c).author = client_id[c]
        THEN written'[c] = written[c]
        ELSE written'[c] = Append(written[c], MPublish(Dequeued(c)))

\* C17: a write loop never writes a PUBLISH for a message authored by its
\* own client id (it dequeues and skips it), and it writes every dequeued
\* message of another author.
C17_EchoSuppression == [][\A c \in Conns : C17_Step(c)]_vars

C17_WritableStep(c) ==
    /\ GainsPublish(c) => (Dequeues(c) /\ Dequeued(c).author # client_id[c])
    /\ Dequeues(c) =>
        IF Dequeued(c).author = client_id[c]
        THEN written'[c] = written[c] /\ send_loop'[c] = send_loop[c]
        ELSE IF can_write(transport, shut, c)
             THEN written'[c] = Append(written[c], MPublish(Dequeued(c)))
             ELSE written'[c] = written[c] /\ send_loop'[c] = "panicked"

\* C17 (amended): a write loop never writes a PUBLISH for a message authored
\* by its own client id (it dequeues and skips it); a dequeued message of
\* another author is written if the transport takes the write, and if the
\* write fails the message is lost and the write loop ends.
C17_EchoSuppressionWhileWritable == [][\A c \in Conns : C17_WritableStep(c)]_vars

\* a connection has dequeued a message of its own and one of another client;
\* only the second was written
C17_Witness ==
    \E c \in Conns :
        /\ taken[c] = 2
        /\ sent[c][1].author = client_id[c]
        /\ sent[c][2].author # client_id[c]
        /\ WrittenPublishes(c) = << MPublish(sent[c][2]) >>

\* ------------------------------------------------------------------ C18
\* the read loop of c ends in this step because its sleep won the select!
TimesOut(c) ==
    /\ read_loop[c] = "running"
    /\ read_loop'[c] = "done"
    /\ transport[c] = "open"
    /\ recv'[c] = recv[c]
\* 1.5 x keep_alive seconds, in half seconds
OneAndAHalf(ka) == 3 * ka
C18_Step(c) ==
    TimesOut(c) => (keep_alive[c] # 0 /\ idle[c] >= OneAndAHalf(keep_alive[c]))

\* C18: a read loop ends with a timeout only when 1.5 x keep_alive seconds
\* have passed since its last packet, and never for keep_alive = 0.
C18_KeepAlive == [][\A c \in Conns : C18_Step(c)]_vars

\* ------------------------------------------------------------------ C19
\* the messages waiting in the outbound queue of c
Waiting(c) == Len(sent[c]) - taken[c]

\* C19: the number of messages waiting in a subscriber's outbound queue never
\* exceeds the fixed capacity of the queue (a publisher that finds the queue
\* full waits until the write loop has taken an element).
C19_Backpressure == \A c \in Conns : Waiting(c) <= QueueCapacity

\* ------------------------------------------------------------------ C20
\* the connection has ended: its read loop has exited and shut the writer down
Ended(c) == read_loop[c] = "done" /\ shut[c]

\* C20: after a connection has ended, its outbound channel closes and its
\* write loop eventually terminates, also if the client had subscribed.
C20_WriteLoopTerminates == \A c \in Conns : Ended(c) ~> (send_loop[c] # "running")

\* ------------------------------------------------------------------ C21
\* read_one_packet returns an error to the read loop of c in this step: the
\* bytes do not decode, or the transport is closed
ReadFails(c) ==
    /\ read_loop[c] = "running"
    /\ \/ Reads(c, "MALFORMED")
       \/ (recv'[c] = recv[c] /\ transport[c] = "closed" /\ read_loop'[c] # "running")
\* the read loop of c has ended
ReadLoopOver(c) == read_loop[c] \in {"done", "failed"}
C21_Step(c) ==
    /\ ReadFails(c) =>
            /\ read_loop'[c] = "done"
            /\ shut'[c]
            /\ \A d \in Conns \ {c} :
                    /\ read_loop'[d] = read_loop[d]
                    /\ shut'[d] = shut[d]
                    /\ transport'[d] = transport[d]
    /\ ReadLoopOver(c) => (recv'[c] = recv[c] /\ ReadLoopOver(c)')

\* C21: a read or decoding error ends the read loop of that connection and
\* shuts its writer down, no further packet of that client is processed, and
\* the read loop, writer and transport of every other connection are left alone.
C21_ReadErrorIsLocal == [][\A c \in Conns : C21_Step(c)]_vars

\* one connection has ended on bytes that did not decode and is shut down,
\* another one has read a packet and its read loop is running
C21_Witness ==
    \E c, d \in Conns :
        /\ c # d
        /\ Connected(c)
        /\ Last(recv[c]).type = "MALFORMED"
        /\ read_loop[c] = "done" /\ shut[c]
        /\ read_loop[d] = "running" /\ ~shut[d] /\ transport[d] = "open"
        /\ Len(recv[d]) = 2

\* ----------------------------------------------------------------- C22
\* the enqueue for s fails for this message: a matching entry of s whose
\* receiver is gone
EnqueueFails(c, s) ==
    /\ EntriesOf(matches_of(trie, PublishedBy(c).topic), s) > 0
    /\ send_loop[s] # "running"
\* the write loop of s fails to write in this step
WriteFails(s) == send_loop[s] = "running" /\ send_loop'[s] = "panicked"
C22_PublishStep(c) ==
    (Reads(c, "PUBLISH") /\ \E s \in Conns : EnqueueFails(c, s)) =>
        /\ \A d \in Conns :
                (~EnqueueFails(c, d)) =>
                    Enqueues(d, PublishedBy(c), EntriesOf(matches_of(trie, PublishedBy(c).topic), d))
        /\ read_loop'[c] = "running"
        /\ send_loop' = send_loop
C22_WriteStep(s) ==
    WriteFails(s) =>
        /\ read_loop' = read_loop
        /\ sent' = sent
        /\ \A d \in Conns \ {s} :
                /\ send_loop'[d] = send_loop[d]
                /\ written'[d] = written[d]
                /\ taken'[d] = taken[d]
                /\ shut'[d] = shut[d]
                /\ transport'[d] = transport[d]

\* C22: a failure to enqueue for one subscriber (its receiver is gone) or to
\* write to it (its transport is closed) stays with that subscriber: every
\* other matching subscriber gets its copies of the message enqueued, the
\* read loop of the publisher keeps running, and the failed write changes no
\* other connection's queue, write loop or transport.
C22_SubscriberIsolation ==
    [][(\A c \in Conns : C22_PublishStep(c)) /\ (\A s \in Conns : C22_WriteStep(s))]_vars

\* the write loop of s has failed after the first message; the second one,
\* which its filter matches too, is enqueued for the other subscriber only
C22_Witness ==
    \E s, d \in Conns :
        /\ s # d
        /\ send_loop[s] = "panicked"
        /\ Len(sent[s]) = 1 /\ sent[s][1].topic = TopicW
        /\ Len(sent[d]) = 2 /\ sent[d][1].topic = TopicW /\ sent[d][2].topic = TopicA
        /\ EntriesOf(matches_of(trie, TopicA), s) = 1
        /\ EntriesOf(matches_of(trie, TopicA), d) = 1
        /\ Len(recv[d]) = 4 /\ Last(recv[d]).type = "PUBLISH"
        /\ read_loop[d] = "running"

\* ----------------------------------------------------------------- C23
\* a connection of the client id is still being read
Held(id) == \E c \in Conns : client_id[c] = id /\ read_loop[c] = "running"
\* a connection of the client id asked for its session to be kept
Persistent(id) ==
    \E c \in Conns : client_id[c] = id /\ recv[c] # << >> /\ ~recv[c][1].clean_session
Released == \A id \in ClientIds : contains_key(clients, id) => (Held(id) \/ Persistent(id))
C23_Step(c) ==
    LET id == recv'[c][1].client_id IN
    (/\ Reads(c, "CONNECT") /\ written'[c] # << >>
     /\ ~recv'[c][1].clean_session
     /\ ~Held(id) /\ ~Persistent(id))
        => ~written'[c][1].session_present

\* C23: the session entry of a connection is released when the connection
\* ends unless the session is to persist: the table holds an entry only for a
\* client id that has a live connection or asked without clean start, and a
\* CONNECT without clean start for an id whose clean-start connections have
\* all ended is answered with session_present = false.
C23_SessionRelease == [][Released' /\ \A c \in Conns : C23_Step(c)]_vars

\* ----------------------------------------------------------------- C24
\* the PUBLISH the broker forwards for a message with these three fields
Forwarded(topic, payload, retain) ==
    [type |-> "PUBLISH", dup |-> FALSE, qos |-> AtMostOnce, retain |-> retain,
     topic_name |-> topic, id |-> NoneOpt, payload |-> payload]
\* client id a read a PUBLISH, or announced a will, with these three fields
Originates(a, topic, payload, retain) ==
    \E p \in Conns :
        /\ client_id[p] = a
        /\ \E j \in 1..Len(recv[p]) :
            LET pkt == recv[p][j] IN
            \/ /\ pkt.type = "PUBLISH"
               /\ pkt.topic_name = topic /\ pkt.payload = payload /\ pkt.retain = retain
            \/ /\ pkt.type = "CONNECT" /\ pkt.will # NoneOpt
               /\ pkt.will[1].topic = topic /\ pkt.will[1].payload = payload
               /\ pkt.will[1].retain = retain
C24_Step(s) ==
    GainsPublish(s) =>
        /\ Dequeues(s)
        /\ Last(written'[s]) = Forwarded(Dequeued(s).topic, Dequeued(s).payload, Dequeued(s).retain)
        /\ Originates(Dequeued(s).author, Dequeued(s).topic, Dequeued(s).payload,
                      Dequeued(s).retain)

Parsed(b) == cPc \in {"parsed", "rewritten"} /\ cBytes = b
NoProperties(props) == \A f \in DOMAIN props : props[f] = NoneOpt
\* the parser returned a DISCONNECT with this reason code and no property
YieldsDisconnect(name) ==
    /\ cParsed.ok
    /\ cParsed.rest = << >>
    /\ cParsed.value.kind = "Disconnect"
    /\ cParsed.value.reason_code = name
    /\ DOMAIN cParsed.value.properties = FieldsOf(DisconnectProperties)
    /\ NoProperties(cParsed.value.properties)

\* C25: a v5 DISCONNECT with Remaining Length 0 (bytes E0 00) decodes to
\* reason_code = NormalDisconnection with no properties; a body of exactly
\* one byte decodes to the reason code that byte stands for, with no
\* properties (and is rejected when the byte is no DISCONNECT reason code).
C25_ShortDisconnect ==
    /\ Parsed(<< 224, 0 >>) => YieldsDisconnect("NormalDisconnection")
    /\ \A byte \in BodyBytes :
            Parsed(<< 224, 1, byte >>) =>
                IF \E name \in DOMAIN DisconnectReasonCode : DisconnectReasonCode[name] = byte
                THEN \E name \in DOMAIN DisconnectReasonCode :
                        DisconnectReasonCode[name] = byte /\ YieldsDisconnect(name)
                ELSE ~cParsed.ok

C25_Witness == Parsed(<< 224, 0 >>) /\ cPc = "parsed" /\ YieldsDisconnect("NormalDisconnection")

\* ----------------------------------------------------------------- C26
\* C26: for every well-formed DISCONNECT or PUBREL packet p, decoding the
\* bytes produced by encoding p succeeds, consumes all bytes and yields a
\* packet equal to p.
C26_RoundTrip ==
    cPc = "read_back" =>
        /\ cParsed.ok
        /\ cParsed.rest = << >>
        /\ cParsed.value = cPacket

\* ----------------------------------------------------------------- C27
\* the bytes handed to the parser decoded to a packet, and the packet has
\* been written again
Reencoded == cPc = "rewritten" /\ cParsed.ok /\ cParsed.rest = << >>

\* C27: for every byte string b that decodes to a DISCONNECT or PUBREL
\* packet p, encoding p reproduces b: the short DISCONNECT E0 00 re-encodes
\* to the same two bytes, and a PUBREL with Remaining Length 2 re-encodes
\* without reason code and properties.
C27_ByteExact == Reencoded => cOut = cBytes

\* ----------------------------------------------------------------- C28
\* connect has returned after the server answered with a successful CONNACK
SuccessfulConnack ==
    /\ kPc = "returned"
    /\ kRequest.send = "ok"
    /\ kRequest.reply.kind = "Connack"
    /\ kRequest.reply.reason_code = "Success"
RejectedFor(reason) ==
    /\ ~kResult.ok
    /\ kResult.error = "ServerProtocolError"
    /\ kResult.reason = reason

\* C28: connect returns a ServerProtocolError and no MqttClient whenever the
\* successful CONNACK has session_present = true although the client asked
\* for a clean start; with clean start = No or session_present = false the
\* check of MQTT-3.2.2-2 never rejects.
C28_CleanStartCheck ==
    SuccessfulConnack =>
        IF kRequest.reply.session_present /\ kRequest.clean_start = "Yes"
        THEN ~kResult.ok /\ kResult.error = "ServerProtocolError"
        ELSE ~RejectedFor("MQTT-3.2.2-2")

C28_Witness ==
    /\ SuccessfulConnack
    /\ kRequest.reply.session_present /\ kRequest.clean_start = "Yes"
    /\ kRequest.client_identifier = MinimalRequired("a")
    /\ kRequest.reply.assigned_client_identifier = NoneOpt
    /\ RejectedFor("MQTT-3.2.2-2")

\* ----------------------------------------------------------------- C29
ProposedNone == kRequest.client_identifier = PotentiallyServerProvided
AssignedSome == kRequest.reply.assigned_client_identifier # NoneOpt
UsesAssigned ==
    AssignedSome /\ kResult.client_identifier = kRequest.reply.assigned_client_identifier[1]
UsesProposed ==
    ~ProposedNone /\ kResult.client_identifier = kRequest.client_identifier.id

\* C29: after a successful CONNACK the MqttClient uses the server-assigned
\* identifier iff the client proposed none and the CONNACK assigns one, and
\* the proposed identifier iff the client proposed one and the CONNACK
\* assigns none; assigned although proposed, and none assigned although none
\* proposed, make connect return a ServerProtocolError.
C29_ClientIdentifier ==
    SuccessfulConnack =>
        /\ kResult.ok =>
                /\ UsesAssigned <=> (ProposedNone /\ AssignedSome)
                /\ UsesProposed <=> (~ProposedNone /\ ~AssignedSome)
        /\ (ProposedNone <=> AssignedSome) =>
                (kResult.ok \/ RejectedFor("MQTT-3.2.2-2"))
        /\ (ProposedNone <=> ~AssignedSome) =>
                (~kResult.ok /\ kResult.error = "ServerProtocolError")

C29_Witness ==
    /\ SuccessfulConnack
    /\ ProposedNone /\ AssignedSome
    /\ kResult.ok /\ kResult.client_identifier = "srv"

\* ----------------------------------------------------------------- C30
\* accept_client returns an error for connection c in this step
AcceptClientFails(c) ==
    /\ recv[c] = << >> /\ recv'[c] # << >>
    /\ \/ recv'[c][1].type = "ERROR"
       \/ recv'[c][1].type = "CONNECT" /\ written'[c] = << >>
\* connection d is open and its client has sent its first packet
Incoming(d) == listening /\ d \in arrived /\ firstPacket[d] # NoneOpt
\* the first packet of d has been read and answered, or the listener has failed
Answered(d) == ~listening \/ recv[d] # << >>
C30_LoopStep ==
    /\ (listening /\ ~listening') => (AtAccept /\ recv' = recv)
    /\ \A c \in Conns : AcceptClientFails(c) => listening'

\* C30: an error while accepting one client does not end the accept loop,
\* the loop ends only when the listener fails, and a connection that has
\* been accepted but has not sent its first packet does not keep other
\* incoming connections from being accepted and answered.
C30_AcceptLoopResponsive ==
    /\ [][C30_LoopStep]_vars
    /\ \A d \in Conns : Incoming(d) ~> Answered(d)

\* ----------------------------------------------------------------- C31
\* the PUBACK packets written to connection c so far
IsPuback(p) == p.type = "PUBACK"
WrittenPubacks(c) == SelectSeq(written[c], IsPuback)
\* the read loop of c reads a PUBLISH of this QoS in this step
ReadsPublish(c, qos) == Reads(c, "PUBLISH") /\ Last(recv'[c]).qos = qos
\* the message of the PUBLISH read in this step has been routed
RoutesPublish(c) == sent' = route_message(trie, sent, send_loop, PublishedBy(c))
\* this step writes the PUBACK for the PUBLISH it reads to connection c, and
\* nothing else
Acknowledges(c) ==
    written'[c] = Append(written[c], [type |-> "PUBACK", id |-> Last(recv'[c]).id[1]])
C31_AlwaysStep(c) ==
    /\ ReadsPublish(c, AtLeastOnce) => (RoutesPublish(c) /\ Acknowledges(c))
    /\ ReadsPublish(c, AtMostOnce) => (RoutesPublish(c) /\ written'[c] = written[c])

\* C31 as stated: every PUBLISH with QoS 1 read from a client is routed and
\* answered with exactly one PUBACK that carries its packet identifier, and a
\* PUBLISH with QoS 0 is routed and answered with nothing.
C31_PubackAlways == [][\A c \in Conns : C31_AlwaysStep(c)]_vars

C31_Step(c) ==
    /\ ReadsPublish(c, AtLeastOnce) =>
            /\ RoutesPublish(c)
            /\ IF can_write(transport', shut, c)
               THEN Acknowledges(c) /\ read_loop'[c] = "running"
               ELSE written'[c] = written[c] /\ read_loop'[c] = "failed"
    /\ ReadsPublish(c, AtMostOnce) => (RoutesPublish(c) /\ written'[c] = written[c])
    /\ ~ReadsPublish(c, AtLeastOnce) => WrittenPubacks(c)' = WrittenPubacks(c)

\* C31: every PUBLISH read from a client is routed; for QoS 1 the broker then
\* writes exactly one PUBACK with the packet identifier of the PUBLISH if the
\* publisher's transport accepts the write, and otherwise writes nothing and
\* ends the read loop; for QoS 0 nothing is written to the publisher; no
\* other step writes a PUBACK.
C31_PubackWhenWritable == [][\A c \in Conns : C31_Step(c)]_vars

\* a publisher has been acknowledged with the identifier 300 of its QoS 1
\* PUBLISH, and the message is in the queue of the other connection
C31_Witness ==
    \E c, s \in Conns :
        /\ c # s
        /\ Connected(c)
        /\ Last(recv[c]).type = "PUBLISH" /\ Last(recv[c]).qos = AtLeastOnce
        /\ Last(recv[c]).id = Some(300)
        /\ WrittenPubacks(c) = << [type |-> "PUBACK", id |-> 300] >>
        /\ Len(sent[s]) = 1 /\ sent[s][1].author = client_id[c]

\* ----------------------------------------------------------------- C32
\* the tasks that hold a guard of the writer
Holding == {t \in WriterTasks : wPc[t] \in {"writing", "shutting"}}
\* the packet a chunk on the transport belongs to
PacketOf(i) == << wire[i].task, wire[i].no >>
\* the chunks of a packet are next to each other on the transport
Contiguous ==
    \A i, j, k \in 1..Len(wire) :
        (i < j /\ j < k /\ PacketOf(i) = PacketOf(k)) => PacketOf(j) = PacketOf(i)

\* C32: the read loop and the send loop of a connection never hold the
\* writer at the same time, and the chunks of two packets are never
\* interleaved on the transport.
C32_WriterExclusive == Cardinality(Holding) <= 1 /\ Contiguous

\* the send loop is in the middle of a PUBLISH while the read loop waits for
\* the lock with a PUBACK, after a first PUBACK has been written
C32_Witness ==
    /\ wPc["send_loop"] = "writing" /\ wPacket["send_loop"].left = 1
    /\ wPc["read_loop"] = "waiting" /\ wPacket["read_loop"].kind = "PUBACK"
    /\ wire = << [task |-> "read_loop", no |-> 1, chunk |-> 1],
                 [task |-> "read_loop", no |-> 1, chunk |-> 2],
                 [task |-> "send_loop", no |-> 1, chunk |-> 1] >>

\* ----------------------------------------------------------------- C33
\* the send loop of c takes a message of another author from its queue in
\* this step and calls write_packet with the PUBLISH made of it
AttemptsWrite(c) ==
    /\ send_loop[c] = "running"
    /\ taken'[c] = taken[c] + 1
    /\ sent[c][taken[c] + 1].author # client_id[c]

\* C33: once the read loop of a connection has shut the writer down, the
\* send loop of that connection never attempts to write a PUBLISH to it.
C33_NoWriteAfterClose == [][\A c \in Conns : shut[c] => ~AttemptsWrite(c)]_vars

\* ----------------------------------------------------------------- C34
\* connect has returned a value: Ok(MqttClient) or Err(MqttClientConnectError)
ReturnedValue ==
    \/ kResult.ok
    \/ kResult.error \in {"Send", "Receive", "TransportUnexpectedlyClosed", "ServerProtocolError"}

\* C34: whatever the server answers first, connect ends with Ok(MqttClient)
\* or with an Err(MqttClientConnectError) and never aborts.
C34_ConnectReturns == kPc = "returned" => ReturnedValue

\* ----------------------------------------------------------------- C35
\* the bytes handed to the parser are one DISCONNECT packet and nothing else:
\* the Remaining Length slice is the input of MDisconnect::parse
WholeDisconnect ==
    /\ cPc = "parsed"
    /\ cBytes[1] = DisconnectHeader
    /\ Len(cBytes) = 2 + cBytes[2]
\* the body is empty, a reason code, or a reason code and a property block
\* that is as long as its length says
DisconnectBodyForm ==
    LET body == SubSeq(cBytes, 3, Len(cBytes)) IN
    \/ Len(body) <= 1
    \/ LET l == parse_variable_u32(SubSeq(body, 2, Len(body))) IN
       l.ok /\ l.value = Len(l.rest)

\* C35: whenever MDisconnect::parse accepts a DISCONNECT body of one of the
\* three forms, it leaves no byte of the Remaining Length slice unread.
C35_ConsumesAll == (WholeDisconnect /\ DisconnectBodyForm /\ cParsed.ok) => cParsed.rest = << >>

====
